---- MODULE Spec2Model ----
(***************************************************************************)
(* Verification model of the notemarks reconciliation / diff / commit      *)
(* engine.                                                                 *)
(*                                                                         *)
(*   SpecCodec     the title <-> filename codec (path_utils)               *)
(*   Spec          original/edit file maps -> diff -> tree merge           *)
(*   SpecApplyOps  the tree merge on arbitrary op batches                  *)
(*   SpecCommit    the six-step remote commit sequence                     *)
(*   SpecReconcile link reconciliation and the canonical entry order       *)
(*   SpecSort      the canonical order on arbitrary entry lists            *)
(*   SpecLoad      listing, download and entry extraction of a load        *)
(*   SpecClassify  the classification of a path by its extension           *)
(*   SpecListing   the recursive listing, one call at a time               *)
(*   SpecApp       the application state under the reducer's actions       *)
(*   SpecEdit      the edit actions where two notes share a directory      *)
(*   SpecPersist   the link registries written and read back               *)
(*   SpecSession   a session with its reloads and commits in flight        *)
(*                                                                         *)
(* Every specification owns a group of variables and leaves the other      *)
(* groups at their idle values.                                            *)
(***************************************************************************)
EXTENDS Integers, Sequences, FiniteSets, TLC

VARIABLES
  \* --- codec ---
  title,          \* the title handed to titleToFilename
  extension,      \* the extension argument (NoExtension when absent)
  filename,       \* result of titleToFilename
  roundTrip,      \* result of filenameToTitle(filename)
  cpc,            \* "idle" | "input" | "encoded" | "decoded"
  \* --- file maps, diff, tree merge ---
  fileMapOrig,    \* original file map of one repo: path -> content
  fileMapEdit,    \* edited file map of the same repo
  rawOps,         \* diff before move collapsing
  ops,            \* the Git Op batch (GitOp[])
  oldTree,        \* GitGetTreeResponseData.tree
  newTree,        \* result of applyOps
  mpc,            \* "idle" | "maps" | "diffed" | "batch" | "merged" | "commit"
  \* --- commit sequence and the remote store ---
  step,           \* the callback of the chain that runs next, or "done"
  last,           \* result handed to the next callback (ResultAsync)
  result,         \* what commit(...) resolves to
  calls,          \* the remote calls issued so far, with their responses
  oldCommitSHA,   \* commit's local variable
  newCommitSHA,   \* commit's local variable
  remoteRef,      \* commit the branch ref heads/main points to
  remoteCommits,  \* commit objects of the remote; a commit's sha is its index
  remoteTrees,    \* tree objects of the remote; a tree's sha is its index
  refAtStart,     \* remoteRef when the sequence started
  otherWrites,    \* pushes by another writer during the sequence
  \* --- link reconciliation ---
  fileEntries,          \* EntryFile[] handed to recomputeEntries
  existingLinkEntries,  \* EntryLink[] handed to the first pass
  linkEntries,          \* link entries returned by the last pass
  entries,              \* sorted and indexed entries returned by the last pass
  prevLinkEntries,      \* link entries of the pass before the last
  prevEntries,          \* entries of the pass before the last
  activeEntryIdx,       \* position of the modified entry returned by modifyFileEntry
  rpc,                  \* "idle" | "input" | "reconciled" | "again" | "modified" | "threw"
  \* --- canonical order ---
  sortIn,         \* the entry list before entries.sort
  sortOut,        \* the list after sortAndIndexEntries
  spc,            \* "idle" | "input" | "sorted"
  \* --- loading a repository ---
  remoteFiles,         \* what the repository holds: path -> content
  listedFiles,         \* paths returned by listFiles
  failedReads,         \* directories and files whose remote read failed
  allFileMaps,         \* loadEntries: the file maps as downloaded
  allFileMapsPatched,  \* loadEntries: the edit-side maps returned by the extraction
  allLinkDBs,          \* loadEntries: link registry content per repository
  allErrors,           \* loadEntries: WrappedError[]
  loaded,              \* what loadEntries resolves to
  lpc,                 \* "idle" | "start" | "listed" | "downloaded" | "done"
  \* --- path classification ---
  kpath,              \* the path handed to getEntryKind
  kkind,              \* the kind it returned
  kpc,                \* "idle" | "input" | "classified"
  \* --- recursive listing, call by call ---
  lsRemote,           \* what the repository holds: path -> content
  lsCalls,            \* listFilesRecursive calls: directory -> frame
  lsFiles,            \* the out parameter files
  lsFailed,           \* directories whose request failed
  lsResult,           \* the list downloadFiles got from listFiles
  lspc,               \* "idle" | "listing" | "resolved"
  \* --- the application state and its reducer ---
  appState,           \* the State the reducer returned last
  appPrev,            \* the State that was handed to the reducer
  appAction,          \* the action dispatched last and how the reducer ended
  appObjects,         \* identity of the file map objects of the two states
  appEdits,           \* edit actions applied since the last reload
  \* --- persisting and reloading the link registries ---
  regMaps,            \* the file maps of the repositories
  regFileEntries,     \* the file entries extracted from them
  regLinks,           \* the current link set
  regReloaded,        \* what recomputeEntries returned after the registries were read back
  regpc,              \* "idle" | "current" | "staged" | "reloaded"
  \* --- a session: reloads and commits in flight (App.tsx, octokit.tsx) ---
  sessMounted,        \* the mount effect of App has run
  sessRemote,         \* content of the remote repositories: repo -> path -> content
  sessStarted,        \* number of runs of reloadEntries started
  sessReloads,        \* the runs of reloadEntries awaiting loadEntries, by start number
  sessInstalled,      \* start number of the run whose ReloadingDone arrived last
  sessConfirmOpen,    \* the confirm dialog of the Reload menu is open
  sessCommit,         \* the commit in flight, or NoCommit
  sessRaced           \* the state changed while the last successful commit was in flight

codecVars == <<title, extension, filename, roundTrip, cpc>>
mergeVars == <<fileMapOrig, fileMapEdit, rawOps, ops, oldTree, newTree, mpc>>
commitVars == <<step, last, result, calls, oldCommitSHA, newCommitSHA, remoteRef,
                remoteCommits, remoteTrees, refAtStart, otherWrites>>
reconVars == <<fileEntries, existingLinkEntries, linkEntries, entries, prevLinkEntries,
               prevEntries, activeEntryIdx, rpc>>
sortVars == <<sortIn, sortOut, spc>>
loadVars == <<remoteFiles, listedFiles, failedReads, allFileMaps, allFileMapsPatched,
              allLinkDBs, allErrors, loaded, lpc>>
classVars == <<kpath, kkind, kpc>>
listVars == <<lsRemote, lsCalls, lsFiles, lsFailed, lsResult, lspc>>
appVars == <<appState, appPrev, appAction, appObjects, appEdits>>
regVars == <<regMaps, regFileEntries, regLinks, regReloaded, regpc>>
sessVars == <<sessMounted, sessRemote, sessStarted, sessReloads, sessInstalled, sessConfirmOpen, sessCommit, sessRaced>>
vars == <<codecVars, mergeVars, commitVars, reconVars, sortVars, loadVars, classVars, listVars, appVars, regVars, sessVars>>

\* ------------------------------------------------------------------------
\* Bounds
\* ------------------------------------------------------------------------

MaxTitleLen == 3
MaxExtLen == 2
NumPaths == 3
MaxOps == 2
MaxOtherWrites == 1
MaxExisting == 2
MaxEntries == 4
MaxPathLen == 4
MaxEdits == 2

\* ------------------------------------------------------------------------
\* Generic helpers
\* ------------------------------------------------------------------------

SeqsUpTo(S, n) == UNION {[1..k -> S] : k \in 0..n}

Range(s) == {s[i] : i \in 1..Len(s)}

\* Array.prototype.join
RECURSIVE JoinStrings(_, _)
JoinStrings(ss, sep) ==
  IF ss = <<>> THEN ""
  ELSE IF Len(ss) = 1 THEN ss[1]
       ELSE ss[1] \o sep \o JoinStrings(Tail(ss), sep)

RECURSIVE FlattenSeq(_)
FlattenSeq(ss) == IF ss = <<>> THEN <<>> ELSE Head(ss) \o FlattenSeq(Tail(ss))

\* ------------------------------------------------------------------------
\* Path codec (path_utils): strings are sequences of characters
\* ------------------------------------------------------------------------

Solidus == "/"
ReverseSolidus == "\\"
BigSolidus == "U+29F8"
BigReverseSolidus == "U+29F9"
Dot == "."

TitleAlphabet == {"a", Dot, Solidus, ReverseSolidus, BigSolidus, BigReverseSolidus}
ExtAlphabet == {"a"}

NoExtension == <<"undefined">>
NoString == <<"?">>

\* String.prototype.replace with a global single-character pattern
RECURSIVE ReplaceAll(_, _, _)
ReplaceAll(s, ch, rep) ==
  IF s = <<>> THEN <<>>
  ELSE (IF Head(s) = ch THEN rep ELSE <<Head(s)>>) \o ReplaceAll(Tail(s), ch, rep)

\* String.prototype.lastIndexOf, 0-based, -1 when absent
LastIndexOf(s, ch) ==
  IF \E i \in 1..Len(s) : s[i] = ch
  THEN (CHOOSE i \in 1..Len(s) : s[i] = ch /\ \A j \in (i+1)..Len(s) : s[j] # ch) - 1
  ELSE -1

\* String.prototype.substring(0, end)
Substring0(s, end) == SubSeq(s, 1, end)

RECURSIVE unescapeLoop(_, _, _, _)
unescapeLoop(s, i, escaped, res) ==
  IF i > Len(s) THEN res
  ELSE IF escaped THEN unescapeLoop(s, i + 1, FALSE, Append(res, s[i]))
  ELSE IF s[i] = BigReverseSolidus THEN unescapeLoop(s, i + 1, TRUE, res)
  ELSE IF s[i] = BigSolidus THEN unescapeLoop(s, i + 1, FALSE, Append(res, Solidus))
  ELSE unescapeLoop(s, i + 1, FALSE, Append(res, s[i]))

unescapeTitle(s) == unescapeLoop(s, 1, FALSE, <<>>)

escapeTitle(s) ==
  ReplaceAll(
    ReplaceAll(
      ReplaceAll(s, BigReverseSolidus, <<BigReverseSolidus, BigReverseSolidus>>),
      BigSolidus, <<BigReverseSolidus, BigSolidus>>),
    Solidus, <<BigSolidus>>)

filenameToTitle(fname) ==
  LET idxLastDot == LastIndexOf(fname, Dot)
  IN  IF idxLastDot = -1 THEN unescapeTitle(fname)
      ELSE unescapeTitle(Substring0(fname, idxLastDot))

titleToFilename(t, ext) ==
  LET titleEscaped == escapeTitle(t)
  IN  IF ext # NoExtension /\ Len(ext) > 0
      THEN titleEscaped \o <<Dot>> \o ext
      ELSE titleEscaped

Titles == SeqsUpTo(TitleAlphabet, MaxTitleLen)
Extensions == {NoExtension} \cup SeqsUpTo(ExtAlphabet, MaxExtLen)

TitleToFilename ==
  /\ cpc = "input"
  /\ filename' = titleToFilename(title, extension)
  /\ cpc' = "encoded"
  /\ UNCHANGED <<title, extension, roundTrip>>

FilenameToTitle ==
  /\ cpc = "encoded"
  /\ roundTrip' = filenameToTitle(filename)
  /\ cpc' = "decoded"
  /\ UNCHANGED <<title, extension, filename>>

\* ------------------------------------------------------------------------
\* Paths, contents, file maps
\* ------------------------------------------------------------------------

\* A path is the sequence of its components ("docs/b.md" is <<"docs", "b.md">>).
PathList ==
  << <<"a.md">>, <<"docs", "b.md">>, <<"docs", "c.md">>,
     <<"docs", "sub", "d.md">>, <<"e.md">> >>

\* --- paths of a loaded repository ---

NOTEMARKS_FOLDER == ".notemarks"

\* `${NOTEMARKS_FOLDER}/${path}.yaml` on a path given by its components
getAssociatedMetaPath(path) ==
  <<NOTEMARKS_FOLDER>> \o SubSeq(path, 1, Len(path) - 1)
    \o <<path[Len(path)] \o ".yaml">>

\* path_utils.NOTEMARKS_LINK_DB_PATH: the link registry of a repository
NOTEMARKS_LINK_DB_PATH == <<NOTEMARKS_FOLDER, "link_db.yaml">>

NotePath == <<"n.md">>
DocPath == <<"docs", "d.pdf">>
BookmarkPath == <<"b.desktop">>

\* the paths a repository of the model can hold, in the order a depth-first
\* listing reports them
LoadPathList ==
  <<getAssociatedMetaPath(DocPath), NOTEMARKS_LINK_DB_PATH,
    getAssociatedMetaPath(NotePath), BookmarkPath, DocPath, NotePath>>

\* the further paths the notes of an edit session can have
AppPathList ==
  << <<"A.md">>, <<"B.md">>, <<"docs", "B.md">>,
     getAssociatedMetaPath(<<"A.md">>), getAssociatedMetaPath(<<"B.md">>),
     getAssociatedMetaPath(<<"docs", "b.md">>), getAssociatedMetaPath(<<"docs", "B.md">>) >>

Paths == {PathList[i] : i \in 1..NumPaths}

PathIndex(p) == CHOOSE i \in 1..Len(PathList) : PathList[i] = p

Contents == {"x", "y"}

\* File known to exist whose content is not fetched (File.content undefined)
Unfetched == "<unfetched>"

\* FileMap: path -> File; a File is represented by its content
FileMaps == UNION {[D -> Contents \cup {Unfetched}] : D \in SUBSET Paths}

\* Edit maps a session can reach from original map O: a clone of O changed by
\* setContent / delete, so a file without content is one O already had.
EditMapsOf(O) ==
  {E \in FileMaps :
     \A p \in DOMAIN E : E[p] = Unfetched => (p \in DOMAIN O /\ O[p] = Unfetched)}

\* ------------------------------------------------------------------------
\* Remote tree snapshot (GitGetTreeResponseData.tree, recursive listing)
\* ------------------------------------------------------------------------

ModeBlob == "100644"
ModeExecutable == "100755"
ModeTree == "040000"

DirsOf(p) == {SubSeq(p, 1, k) : k \in 1..(Len(p) - 1)}

RECURSIVE ListingFrom(_, _)
ListingFrom(i, seen) ==
  IF i > Len(PathList) THEN <<>>
  ELSE LET p == PathList[i]
           dirs == [k \in 1..(Len(p) - 1) |-> SubSeq(p, 1, k)]
           fresh(d) == d \notin seen
       IN  SelectSeq(dirs, fresh) \o <<p>> \o ListingFrom(i + 1, seen \cup DirsOf(p))

\* every directory and file node, in listing order
Listing == ListingFrom(1, {})

\* content identity the remote assigns to a blob
ShaOfContent(c) == "sha:" \o c
ShaOfPath(p) == "sha:" \o ToString(PathIndex(p))
FileSha(p, c) == IF c = Unfetched THEN ShaOfPath(p) ELSE ShaOfContent(c)

ModeOf(p) == IF PathIndex(p) = 3 THEN ModeExecutable ELSE ModeBlob

\* the recursive tree listing of a store holding blob shaAt[p] at every path p
TreeOfShas(shaAt) ==
  LET present(n) ==
        \/ n \in DOMAIN shaAt
        \/ \E p \in DOMAIN shaAt : n \in DirsOf(p)
      nodes == SelectSeq(Listing, present)
  IN  [i \in 1..Len(nodes) |->
         IF nodes[i] \in DOMAIN shaAt
         THEN [path |-> nodes[i], mode |-> ModeOf(nodes[i]), type |-> "blob",
               sha |-> shaAt[nodes[i]]]
         ELSE [path |-> nodes[i], mode |-> ModeTree, type |-> "tree",
               sha |-> "sha:tree"]]

TreeOf(m) == TreeOfShas([p \in DOMAIN m |-> FileSha(p, m[p])])

\* ------------------------------------------------------------------------
\* Git ops and the diff engine (git_ops)
\* ------------------------------------------------------------------------

OpWrite(p, c) == [kind |-> "write", path |-> p, content |-> c]
OpDelete(p) == [kind |-> "delete", path |-> p]
OpMove(p, q) == [kind |-> "move", pathFrom |-> p, pathTo |-> q]

AllOps ==
  {OpWrite(p, c) : p \in Paths, c \in Contents}
    \cup {OpDelete(p) : p \in Paths}
    \cup {OpMove(pq[1], pq[2]) : pq \in {x \in Paths \X Paths : x[1] # x[2]}}

OpBatches == SeqsUpTo(AllOps, MaxOps)

\* paths of m in listing order
PathSeq(m) ==
  LET in(p) == p \in DOMAIN m
  IN  SelectSeq(PathList \o LoadPathList \o AppPathList, in)

\* write for every path of E that is new or whose content differs, then
\* delete for every path of O that E lacks
rawDiff(O, E) ==
  LET changed(p) == p \notin DOMAIN O \/ O[p] # E[p]
      gone(p) == p \notin DOMAIN E
      ws == SelectSeq(PathSeq(E), changed)
      ds == SelectSeq(PathSeq(O), gone)
  IN  [i \in 1..Len(ws) |-> OpWrite(ws[i], E[ws[i]])]
        \o [i \in 1..Len(ds) |-> OpDelete(ds[i])]

\* pair every deletion, in order, with the first still unpaired addition that
\* carries byte-identical content
RECURSIVE pairMoves(_, _, _, _)
pairMoves(O, dels, adds, acc) ==
  IF dels = <<>> THEN acc
  ELSE LET d == Head(dels)
           free(w) == /\ w.content = O[d.path]
                      /\ \A k \in 1..Len(acc) : acc[k].pathTo # w.path
           cands == SelectSeq(adds, free)
       IN  IF cands = <<>> THEN pairMoves(O, Tail(dels), adds, acc)
           ELSE pairMoves(O, Tail(dels), adds,
                          Append(acc, OpMove(d.path, Head(cands).path)))

collapseMoves(O, raw) ==
  LET isDelete(op) == op.kind = "delete"
      isAddition(op) == op.kind = "write" /\ op.path \notin DOMAIN O
      moves == pairMoves(O, SelectSeq(raw, isDelete), SelectSeq(raw, isAddition), <<>>)
      rewrite(op) ==
        IF op.kind = "delete"
        THEN IF \E k \in 1..Len(moves) : moves[k].pathFrom = op.path
             THEN <<moves[CHOOSE k \in 1..Len(moves) : moves[k].pathFrom = op.path]>>
             ELSE <<op>>
        ELSE IF \E k \in 1..Len(moves) : moves[k].pathTo = op.path
             THEN <<>>
             ELSE <<op>>
  IN  FlattenSeq([i \in 1..Len(raw) |-> rewrite(raw[i])])

\* the diff with its intermediate list: raw is the batch before move
\* collapsing, ops the batch handed to the caller
diffFileMaps(O, E) ==
  LET raw == rawDiff(O, E)
  IN  [raw |-> raw, ops |-> collapseMoves(O, raw)]

\* the reducer's staging call: diff of the original maps against the edit maps
stageGitOpsSwapped(orig, edit) == diffFileMaps(edit, orig)
stageGitOps(orig, edit) == diffFileMaps(orig, edit)

\* ------------------------------------------------------------------------
\* Tree merge (applyOps)
\* ------------------------------------------------------------------------

opDropsEntryDeleteOnly(op, entry) == op.kind = "delete" /\ op.path = entry.path
opDropsEntry(op, entry) == op.kind # "move" /\ op.path = entry.path

opMovesEntryNever(op, entry) == FALSE
opMovesEntry(op, entry) == op.kind = "move" /\ op.pathFrom = entry.path

isTreeEntryNever(entry) == FALSE
isTreeEntry(entry) == entry.type = "tree"

\* the inner loop over ops for one old entry
RECURSIVE scanOps(_, _, _, _)
scanOps(batch, i, entry, destinationPath) ==
  IF i > Len(batch) THEN [keep |-> TRUE, destinationPath |-> destinationPath]
  ELSE IF opDropsEntry(batch[i], entry)
       THEN [keep |-> FALSE, destinationPath |-> destinationPath]
  ELSE IF opMovesEntry(batch[i], entry)
       THEN scanOps(batch, i + 1, entry, batch[i].pathTo)
  ELSE scanOps(batch, i + 1, entry, destinationPath)

keptEntry(batch, entry) ==
  LET r == scanOps(batch, 1, entry, entry.path)
      keep == IF isTreeEntry(entry) THEN FALSE ELSE r.keep
  IN  IF keep
      THEN <<[path |-> r.destinationPath, mode |-> entry.mode, type |-> entry.type,
              sha |-> entry.sha]>>
      ELSE <<>>

writtenEntry(op) ==
  IF op.kind = "write"
  THEN <<[path |-> op.path, mode |-> ModeBlob, type |-> "blob", content |-> op.content]>>
  ELSE <<>>

applyOpsFirstOpOnly(batch, tree) ==
  LET first == SubSeq(batch, 1, IF batch = <<>> THEN 0 ELSE 1)
  IN  FlattenSeq([i \in 1..Len(tree) |-> keptEntry(first, tree[i])])
        \o FlattenSeq([i \in 1..Len(first) |-> writtenEntry(first[i])])
applyOps(batch, tree) ==
  FlattenSeq([i \in 1..Len(tree) |-> keptEntry(batch, tree[i])])
    \o FlattenSeq([i \in 1..Len(batch) |-> writtenEntry(batch[i])])

\* ------------------------------------------------------------------------
\* Spec: original/edit maps -> diff -> tree merge
\* SpecApplyOps: tree merge of an arbitrary batch into an arbitrary tree
\* ------------------------------------------------------------------------

\* old trees whose blobs carry pairwise distinct shas: applyOps never reads a
\* sha, so the sha serves as the mark of the old entry a new entry stems from
OldTrees == {TreeOfShas([p \in D |-> ShaOfPath(p)]) : D \in SUBSET Paths}

DiffFileMaps ==
  /\ mpc = "maps"
  /\ LET staged == stageGitOps(fileMapOrig, fileMapEdit)
     IN  rawOps' = staged.raw /\ ops' = staged.ops
  /\ mpc' = "diffed"
  /\ UNCHANGED <<fileMapOrig, fileMapEdit, oldTree, newTree>>

ApplyOps ==
  /\ mpc \in {"diffed", "batch"}
  /\ newTree' = applyOps(ops, oldTree)
  /\ mpc' = "merged"
  /\ UNCHANGED <<fileMapOrig, fileMapEdit, rawOps, ops, oldTree>>

\* ------------------------------------------------------------------------
\* Commit sequence (commit) against a model of the remote store
\* ------------------------------------------------------------------------

NoSha == 0
HeadRef == "heads/main"
CommitMsg == "commit message"

MsgGetRef == "Failed to get head ref."
MsgGetCommit == "Failed to get head commit."
MsgGetTree(treeSHA) == "Failed to get tree with sha " \o ToString(treeSHA) \o "."
MsgCreateTree == "Failed to create tree."
MsgCreateCommit == "Failed to create commit."
MsgUpdateRef == "Failed to update ref."
MsgTruncated == "Tree has been truncated -- handling that many files is not supported yet."

\* Ok / Err values of the chain; an Ok carries the fields of response.data read
\* by the following callback
OkResp(sha, tree, truncated) ==
  [ok |-> TRUE, sha |-> sha, tree |-> tree, truncated |-> truncated,
   msg |-> "", originalError |-> ""]
Err(msg, originalError) ==
  [ok |-> FALSE, sha |-> NoSha, tree |-> <<>>, truncated |-> FALSE,
   msg |-> msg, originalError |-> originalError]

\* startChain: okAsync(null)
startChain == OkResp(NoSha, <<>>, FALSE)

NoResult == [state |-> "pending", value |-> NoSha, msg |-> "", originalError |-> ""]

\* andThen runs its callback only on an Ok and passes an Err through
andThenRunsAlways(r) == TRUE
andThenRuns(r) == r.ok

treeIsTruncatedNever(resp) == FALSE
treeIsTruncated(resp) == resp.truncated

createCommitParamsNoParent(commitMsg, oldSHA, newTreeSHA) ==
  [message |-> commitMsg, parents |-> <<>>, tree |-> newTreeSHA]
createCommitParams(commitMsg, oldSHA, newTreeSHA) ==
  [message |-> commitMsg, parents |-> <<oldSHA>>, tree |-> newTreeSHA]

updateRefParamsNoForce(ref, commitSHA) == [ref |-> ref, sha |-> commitSHA, force |-> FALSE]
updateRefParams(ref, commitSHA) == [ref |-> ref, sha |-> commitSHA, force |-> TRUE]

\* .map(() => newCommitSHA)
commitResultAlwaysOk(r, sha) ==
  [state |-> "ok", value |-> sha, msg |-> "", originalError |-> ""]
commitResult(r, sha) ==
  IF r.ok THEN [state |-> "ok", value |-> sha, msg |-> "", originalError |-> ""]
  ELSE [state |-> "err", value |-> NoSha, msg |-> r.msg, originalError |-> r.originalError]

\* --- the remote store -----------------------------------------------------

\* A request either fails in transit (the remote does nothing) or is served.
Transit == {"served", "network error"}

RECURSIVE IsAncestor(_, _, _)
IsAncestor(commits, a, b) ==
  \/ a = b
  \/ /\ b \in DOMAIN commits
     /\ \E k \in 1..Len(commits[b].parents) : IsAncestor(commits, a, commits[b].parents[k])

remoteGetRef == OkResp(remoteRef, <<>>, FALSE)

remoteGetCommit(sha) ==
  IF sha \in DOMAIN remoteCommits
  THEN OkResp(remoteCommits[sha].tree, <<>>, FALSE)
  ELSE Err(MsgGetCommit, "not found")

\* the recursive listing; a truncated response holds a proper part of it
remoteGetTree(sha, truncated) ==
  IF sha \in DOMAIN remoteTrees
  THEN LET full == TreeOfShas(remoteTrees[sha])
       IN  IF truncated THEN OkResp(sha, SubSeq(full, 1, Len(full) \div 2), TRUE)
           ELSE OkResp(sha, full, FALSE)
  ELSE Err(MsgGetTree(sha), "not found")

\* sha the remote gives the blob of a submitted entry
SubmittedSha(e) == IF "sha" \in DOMAIN e THEN e.sha ELSE ShaOfContent(e.content)

\* the stores a submitted entry list can become: one blob per path, taken from
\* an entry submitted for that path
TreesCreatedFrom(submitted) ==
  LET ps == {submitted[i].path : i \in 1..Len(submitted)}
      shas == {SubmittedSha(submitted[i]) : i \in 1..Len(submitted)}
  IN  {f \in [ps -> shas] :
         \A p \in ps : \E i \in 1..Len(submitted) :
           submitted[i].path = p /\ SubmittedSha(submitted[i]) = f[p]}

\* --- the callbacks of the chain ---------------------------------------------

Log(name, arg, resp) ==
  [name |-> name, arg |-> arg, resp |-> resp, refBefore |-> remoteRef]

Skip(next) ==
  /\ ~andThenRuns(last)
  /\ step' = next
  /\ UNCHANGED <<last, result, calls, oldCommitSHA, newCommitSHA, remoteRef,
                 remoteCommits, remoteTrees, refAtStart, otherWrites, oldTree, newTree>>

CallGetRef ==
  /\ step = "getRef"
  /\ \/ Skip("getCommit")
     \/ /\ andThenRuns(last)
        /\ \E t \in Transit :
             LET resp == IF t = "served" THEN remoteGetRef ELSE Err(MsgGetRef, t)
             IN  /\ last' = resp
                 /\ calls' = Append(calls, Log("getRef", HeadRef, resp))
        /\ step' = "getCommit"
        /\ UNCHANGED <<result, oldCommitSHA, newCommitSHA, remoteRef, remoteCommits,
                       remoteTrees, refAtStart, otherWrites, oldTree, newTree>>

CallGetCommit ==
  /\ step = "getCommit"
  /\ \/ Skip("getTree")
     \/ /\ andThenRuns(last)
        /\ oldCommitSHA' = last.sha
        /\ \E t \in Transit :
             LET resp == IF t = "served" THEN remoteGetCommit(last.sha)
                         ELSE Err(MsgGetCommit, t)
             IN  /\ last' = resp
                 /\ calls' = Append(calls, Log("getCommit", last.sha, resp))
        /\ step' = "getTree"
        /\ UNCHANGED <<result, newCommitSHA, remoteRef, remoteCommits, remoteTrees,
                       refAtStart, otherWrites, oldTree, newTree>>

CallGetTree ==
  /\ step = "getTree"
  /\ \/ Skip("createTree")
     \/ /\ andThenRuns(last)
        /\ \E t \in Transit, truncated \in BOOLEAN :
             LET resp == IF t = "served" THEN remoteGetTree(last.sha, truncated)
                         ELSE Err(MsgGetTree(last.sha), t)
             IN  /\ last' = resp
                 /\ calls' = Append(calls, Log("getTree", last.sha, resp))
        /\ step' = "createTree"
        /\ UNCHANGED <<result, oldCommitSHA, newCommitSHA, remoteRef, remoteCommits,
                       remoteTrees, refAtStart, otherWrites, oldTree, newTree>>

CallCreateTree ==
  /\ step = "createTree"
  /\ \/ Skip("createCommit")
     \/ /\ andThenRuns(last)
        /\ treeIsTruncated(last)
        \* errAsync({msg, error: null}): the value has no originalError field
        /\ last' = Err(MsgTruncated, "undefined")
        /\ step' = "createCommit"
        /\ UNCHANGED <<result, calls, oldCommitSHA, newCommitSHA, remoteRef, remoteCommits,
                       remoteTrees, refAtStart, otherWrites, oldTree, newTree>>
     \/ /\ andThenRuns(last)
        /\ ~treeIsTruncated(last)
        /\ oldTree' = last.tree
        /\ newTree' = applyOps(ops, last.tree)
        /\ \/ LET resp == Err(MsgCreateTree, "network error")
              IN  /\ last' = resp
                  /\ calls' = Append(calls, Log("createTree", newTree', resp))
                  /\ UNCHANGED remoteTrees
           \/ \E created \in TreesCreatedFrom(newTree') :
                LET resp == OkResp(Len(remoteTrees) + 1, <<>>, FALSE)
                IN  /\ remoteTrees' = Append(remoteTrees, created)
                    /\ last' = resp
                    /\ calls' = Append(calls, Log("createTree", newTree', resp))
        /\ step' = "createCommit"
        /\ UNCHANGED <<result, oldCommitSHA, newCommitSHA, remoteRef, remoteCommits,
                       refAtStart, otherWrites>>

CallCreateCommit ==
  /\ step = "createCommit"
  /\ \/ Skip("updateRef")
     \/ /\ andThenRuns(last)
        /\ LET params == createCommitParams(CommitMsg, oldCommitSHA, last.sha)
           IN  \/ LET resp == Err(MsgCreateCommit, "network error")
                  IN  /\ last' = resp
                      /\ calls' = Append(calls, Log("createCommit", params, resp))
                      /\ UNCHANGED remoteCommits
               \/ /\ params.tree \notin DOMAIN remoteTrees
                  /\ LET resp == Err(MsgCreateCommit, "unprocessable")
                     IN  /\ last' = resp
                         /\ calls' = Append(calls, Log("createCommit", params, resp))
                  /\ UNCHANGED remoteCommits
               \/ /\ params.tree \in DOMAIN remoteTrees
                  /\ LET resp == OkResp(Len(remoteCommits) + 1, <<>>, FALSE)
                     IN  /\ last' = resp
                         /\ calls' = Append(calls, Log("createCommit", params, resp))
                  /\ remoteCommits' = Append(remoteCommits, params)
        /\ step' = "updateRef"
        /\ UNCHANGED <<result, oldCommitSHA, newCommitSHA, remoteRef, remoteTrees,
                       refAtStart, otherWrites, oldTree, newTree>>

CallUpdateRef ==
  /\ step = "updateRef"
  /\ \/ Skip("map")
     \/ /\ andThenRuns(last)
        /\ newCommitSHA' = last.sha
        /\ LET params == updateRefParams(HeadRef, last.sha)
               accepted == /\ params.sha \in DOMAIN remoteCommits
                           /\ (params.force \/ IsAncestor(remoteCommits, remoteRef, params.sha))
           IN  \/ LET resp == Err(MsgUpdateRef, "network error")
                  IN  /\ last' = resp
                      /\ calls' = Append(calls, Log("updateRef", params, resp))
                      /\ UNCHANGED remoteRef
               \/ /\ ~accepted
                  /\ LET resp == Err(MsgUpdateRef, "not a fast forward")
                     IN  /\ last' = resp
                         /\ calls' = Append(calls, Log("updateRef", params, resp))
                  /\ UNCHANGED remoteRef
               \/ /\ accepted
                  /\ LET resp == OkResp(params.sha, <<>>, FALSE)
                     IN  /\ last' = resp
                         /\ calls' = Append(calls, Log("updateRef", params, resp))
                  /\ remoteRef' = params.sha
        /\ step' = "map"
        /\ UNCHANGED <<result, oldCommitSHA, remoteCommits, remoteTrees, refAtStart,
                       otherWrites, oldTree, newTree>>

MapResult ==
  /\ step = "map"
  /\ result' = commitResult(last, newCommitSHA)
  /\ step' = "done"
  /\ UNCHANGED <<last, calls, oldCommitSHA, newCommitSHA, remoteRef, remoteCommits,
                 remoteTrees, refAtStart, otherWrites, oldTree, newTree>>

\* another writer pushes a commit onto the branch while the sequence runs
OtherWriterPush ==
  /\ step # "done"
  /\ otherWrites < MaxOtherWrites
  /\ remoteCommits' = Append(remoteCommits,
                             [message |-> "other", parents |-> <<remoteRef>>,
                              tree |-> remoteCommits[remoteRef].tree])
  /\ remoteRef' = Len(remoteCommits) + 1
  /\ otherWrites' = otherWrites + 1
  /\ UNCHANGED <<step, last, result, calls, oldCommitSHA, newCommitSHA, remoteTrees,
                 refAtStart, oldTree, newTree>>

\* the batches handed to commit in this model: empty or a single op
CommitBatches == {<<>>} \cup {<<op>> : op \in AllOps}

\* ------------------------------------------------------------------------
\* Entries, keys and the canonical order (entry_utils)
\* ------------------------------------------------------------------------

KindNote == "NoteMarkdown"
KindDocument == "Document"
KindLink == "Link"

NoRepo == "undefined"
NoKey == "undefined"
NoIdx == -1

entryKindNumericValues == (KindNote :> 0) @@ (KindDocument :> 1) @@ (KindLink :> 2)

isFileContent(entry) == entry.kind = KindDocument \/ entry.kind = KindNote

isNote(entry) == entry.kind = KindNote

isLink(entry) == entry.kind = KindLink

\* path_utils.getPath: the repository path of a file entry
getPath(entry) ==
  LET fname == IF entry.extension # "" THEN entry.title \o "." \o entry.extension
               ELSE entry.title
  IN  IF entry.location = "" THEN fname ELSE entry.location \o "/" \o fname

LinkKeyPrefix == "__link_"

recomputeKeyBareTarget(entry) ==
  IF isFileContent(entry)
  THEN [entry EXCEPT !.key = entry.repo \o ":" \o getPath(entry)]
  ELSE [entry EXCEPT !.key = entry.target]
recomputeKey(entry) ==
  IF isFileContent(entry)
  THEN [entry EXCEPT !.key = entry.repo \o ":" \o getPath(entry)]
  ELSE [entry EXCEPT !.key = LinkKeyPrefix \o entry.target]

\* String.prototype.toLowerCase on the titles of the model
toLowerCase(s) ==
  CASE s = "A" -> "a"
    [] s = "B" -> "b"
    [] s = "Z" -> "z"
    [] s = "T1" -> "t1"
    [] OTHER -> s

\* collation order of the lower-cased titles of the model
Collation == <<"a", "b", "constructor", "t1", "t2", "z">>

CollationRank(s) == CHOOSE i \in 1..Len(Collation) : Collation[i] = s

\* String.prototype.localeCompare: negative, zero or positive
localeCompare(a, b) ==
  IF CollationRank(a) < CollationRank(b) THEN -1
  ELSE IF CollationRank(a) > CollationRank(b) THEN 1
  ELSE 0

\* the comparator handed to entries.sort
compareEntriesTitleOnly(a, b) == localeCompare(toLowerCase(a.title), toLowerCase(b.title))
compareEntries(a, b) ==
  IF a.kind # b.kind
  THEN entryKindNumericValues[a.kind] - entryKindNumericValues[b.kind]
  ELSE localeCompare(toLowerCase(a.title), toLowerCase(b.title))

\* Array.prototype.sort is stable: an element goes behind every element that
\* does not compare greater
RECURSIVE insertSorted(_, _)
insertSorted(s, x) ==
  IF s = <<>> THEN <<x>>
  ELSE IF compareEntries(Head(s), x) <= 0 THEN <<Head(s)>> \o insertSorted(Tail(s), x)
  ELSE <<x>> \o s

RECURSIVE sortEntries(_, _, _)
sortEntries(es, i, acc) ==
  IF i > Len(es) THEN acc ELSE sortEntries(es, i + 1, insertSorted(acc, es[i]))

assignIdxFromOne(es) == [i \in 1..Len(es) |-> [es[i] EXCEPT !.idx = i]]
assignIdx(es) == [i \in 1..Len(es) |-> [es[i] EXCEPT !.idx = i - 1]]

sortAndIndexEntries(es) == assignIdx(sortEntries(es, 1, <<>>))

\* ------------------------------------------------------------------------
\* Link reconciliation (recomputeLinkEntries / recomputeEntries)
\* ------------------------------------------------------------------------

\* label_utils.normalizeLabels: deduplicated and sorted
LabelOrder == <<"a", "b", "c">>

normalizeLabels(ls) ==
  LET has(l) == l \in Range(ls)
  IN  SelectSeq(LabelOrder, has)

mergeLabels(existingLabels, incomingLabels) == normalizeLabels(existingLabels \o incomingLabels)

mergeRepos(existingRepos, incomingRepo) ==
  IF incomingRepo \in Range(existingRepos) THEN existingRepos
  ELSE Append(existingRepos, incomingRepo)

mergeLocations(existingLocations, incomingLocation) ==
  IF incomingLocation \in Range(existingLocations) THEN existingLocations
  ELSE Append(existingLocations, incomingLocation)

\* property names every object literal inherits from Object.prototype
ObjectPrototypeKeys ==
  {"constructor", "toString", "valueOf", "hasOwnProperty", "isPrototypeOf", "__proto__"}

\* `key in obj` for obj created as {}: own and inherited property names
inObject(key, obj) == key \in DOMAIN obj \/ key \in ObjectPrototypeKeys

\* a link record as deserializeLinkEntries builds it from a stored link
linkEntryOf(linkTitle, target, ownLabels, standaloneRepo) ==
  recomputeKey([kind |-> KindLink, title |-> linkTitle, priority |-> 0, labels |-> ownLabels,
                target |-> target, referencedBy |-> <<>>, standaloneRepo |-> standaloneRepo,
                refRepos |-> <<>>, refLocations |-> <<>>, ownLabels |-> ownLabels,
                key |-> NoKey, idx |-> NoIdx])

\* the link synthesized for a target first seen in a note; referencedBy holds
\* the referencing entries, identified by their keys
newLinkEntry(entry, linkTarget) ==
  recomputeKey([kind |-> KindLink, title |-> linkTarget, priority |-> 0, labels |-> entry.labels,
                target |-> linkTarget, referencedBy |-> <<entry.key>>, standaloneRepo |-> NoRepo,
                refRepos |-> <<entry.repo>>, refLocations |-> <<entry.location>>,
                ownLabels |-> <<>>, key |-> NoKey, idx |-> NoIdx])

resetLinkKeepsRefs(link) == [link EXCEPT !.labels = link.ownLabels]
resetLink(link) ==
  [link EXCEPT !.referencedBy = <<>>, !.refRepos = <<>>, !.refLocations = <<>>,
               !.labels = link.ownLabels]

addReference(linkEntry, entry) ==
  [linkEntry EXCEPT !.referencedBy = Append(@, entry.key),
                    !.refRepos = mergeRepos(@, entry.repo),
                    !.refLocations = mergeLocations(@, entry.location),
                    !.labels = mergeLabels(@, entry.labels)]

\* linkEntries holds the targets of the pushed links in push order: every
\* pushed link is the object linkMap holds for its target
EmptyObject == [k \in {} |-> TRUE]

emptyLinkState ==
  [linkEntries |-> <<>>, linkMap |-> EmptyObject, linkInserted |-> EmptyObject, threw |-> FALSE]

isStandaloneNever(link) == FALSE
isStandalone(link) == link.standaloneRepo # NoRepo

alreadyInsertedNever(linkTarget, st) == FALSE
alreadyInserted(linkTarget, st) == inObject(linkTarget, st.linkInserted)

RECURSIVE existingLinksLoop(_, _, _)
existingLinksLoop(links, i, st) ==
  IF i > Len(links) THEN st
  ELSE LET link == resetLink(links[i])
           t == link.target
       IN  IF ~inObject(t, st.linkMap)
           THEN existingLinksLoop(links, i + 1,
                  [st EXCEPT
                     !.linkEntries = IF isStandalone(link) THEN Append(@, t) ELSE @,
                     !.linkInserted = IF isStandalone(link) THEN (t :> TRUE) @@ @ ELSE @,
                     !.linkMap = (t :> link) @@ @])
           ELSE existingLinksLoop(links, i + 1, st)

\* the (note, link target) pairs in the order the nested loops visit them
noteLinks(files) ==
  FlattenSeq([i \in 1..Len(files) |->
                IF isNote(files[i])
                THEN [j \in 1..Len(files[i].links) |->
                        [entry |-> files[i], linkTarget |-> files[i].links[j]]]
                ELSE <<>>])

RECURSIVE noteLinksLoop(_, _, _)
noteLinksLoop(refs, i, st) ==
  IF i > Len(refs) \/ st.threw THEN st
  ELSE LET entry == refs[i].entry
           linkTarget == refs[i].linkTarget
       IN  IF ~inObject(linkTarget, st.linkMap)
           THEN noteLinksLoop(refs, i + 1,
                  [st EXCEPT !.linkEntries = Append(@, linkTarget),
                             !.linkInserted = (linkTarget :> TRUE) @@ @,
                             !.linkMap = (linkTarget :> newLinkEntry(entry, linkTarget)) @@ @])
           ELSE IF linkTarget \notin DOMAIN st.linkMap
           \* linkMap[linkTarget] is an inherited member without .content:
           \* reading .content.referencedBy raises a TypeError
           THEN [st EXCEPT !.threw = TRUE]
           ELSE noteLinksLoop(refs, i + 1,
                  [st EXCEPT
                     !.linkMap = [@ EXCEPT ![linkTarget] = addReference(@, entry)],
                     !.linkEntries = IF ~alreadyInserted(linkTarget, st)
                                     THEN Append(@, linkTarget) ELSE @,
                     !.linkInserted = IF ~alreadyInserted(linkTarget, st)
                                      THEN (linkTarget :> TRUE) @@ @ ELSE @])

recomputeLinkEntries(files, existing) ==
  LET st == noteLinksLoop(noteLinks(files), 1,
                          existingLinksLoop(existing, 1, emptyLinkState))
  IN  [threw |-> st.threw,
       linkEntries |-> [i \in 1..Len(st.linkEntries) |-> st.linkMap[st.linkEntries[i]]]]

\* idx is written into the entry objects, which the file entry list and the
\* link entry list share with the sorted list. An object is told from an
\* equal one by the position pos it has in the list handed to sort.
withPos(es) ==
  [i \in 1..Len(es) |->
     [f \in DOMAIN es[i] \cup {"pos"} |-> IF f = "pos" THEN i ELSE es[i][f]]]

withoutPos(es) == [i \in 1..Len(es) |-> [f \in DOMAIN es[i] \ {"pos"} |-> es[i][f]]]

idxOf(sorted, pos) == sorted[CHOOSE i \in 1..Len(sorted) : sorted[i].pos = pos].idx

\* the objects of es, which were handed to sort at the positions behind offset
withIdx(es, sorted, offset) ==
  [i \in 1..Len(es) |-> [es[i] EXCEPT !.idx = idxOf(sorted, offset + i)]]

recomputeEntries(files, existing) ==
  LET r == recomputeLinkEntries(files, existing)
      sorted == sortAndIndexEntries(withPos(files \o r.linkEntries))
  IN  IF r.threw
      THEN [threw |-> TRUE, fileEntries |-> files, linkEntries |-> <<>>, entries |-> <<>>]
      ELSE [threw |-> FALSE, fileEntries |-> withIdx(files, sorted, 0),
            linkEntries |-> withIdx(r.linkEntries, sorted, Len(files)),
            entries |-> withoutPos(sorted)]

\* --- inputs of the reconciliation ------------------------------------------

\* a file entry as constructFileEntry builds it
noteEntryOf(noteTitle, repo, location, labels, links) ==
  recomputeKey([kind |-> KindNote, title |-> noteTitle, priority |-> 0, labels |-> labels,
                repo |-> repo, location |-> location, extension |-> "md", links |-> links,
                key |-> NoKey, idx |-> NoIdx])

docEntryOf(docTitle, repo, location, labels) ==
  recomputeKey([kind |-> KindDocument, title |-> docTitle, priority |-> 0, labels |-> labels,
                repo |-> repo, location |-> location, extension |-> "pdf",
                key |-> NoKey, idx |-> NoIdx])

Targets == {"t1", "t2", "constructor"}

\* outgoing link targets of a note, in text order, repetitions included
NoteLinkLists ==
  {<<>>, <<"t1">>, <<"t1", "t1">>, <<"t1", "t2">>, <<"t2", "t1">>, <<"constructor">>}

NotesA == {noteEntryOf("A", "r1", "", <<"b", "a">>, lk) : lk \in NoteLinkLists}
NotesB == {noteEntryOf("b", "r2", "docs", ls, lk) : ls \in {<<>>, <<"c">>}, lk \in NoteLinkLists}
DocD == docEntryOf("a", "r1", "docs", <<"a">>)

FileEntryLists ==
  {<<>>} \cup {<<a>> : a \in NotesA}
    \cup {<<a, b>> : a \in NotesA, b \in NotesB}
    \cup {<<b, DocD, a>> : a \in NotesA, b \in NotesB}

\* records of the link registry, duplicates of one target among them
ExistingLinkPool ==
  {linkEntryOf("T1", "t1", <<>>, "r1"),
   linkEntryOf("t1", "t1", <<"b">>, NoRepo),
   linkEntryOf("Z", "t2", <<"c", "a">>, "r2"),
   linkEntryOf("t2", "t2", <<>>, NoRepo),
   linkEntryOf("constructor", "constructor", <<>>, "r1")}

ExistingLinkLists == SeqsUpTo(ExistingLinkPool, MaxExisting)

RecomputeEntries ==
  /\ rpc = "input"
  /\ LET r == recomputeEntries(fileEntries, existingLinkEntries)
     IN  /\ fileEntries' = r.fileEntries
         /\ linkEntries' = r.linkEntries
         /\ entries' = r.entries
         /\ rpc' = IF r.threw THEN "threw" ELSE "reconciled"
  /\ UNCHANGED <<existingLinkEntries, prevLinkEntries, prevEntries, activeEntryIdx>>

\* a further pass over the same file entries with the links of the last pass
RecomputeEntriesAgain ==
  /\ rpc = "reconciled"
  /\ LET r == recomputeEntries(fileEntries, linkEntries)
     IN  /\ fileEntries' = r.fileEntries
         /\ linkEntries' = r.linkEntries
         /\ entries' = r.entries
         /\ rpc' = IF r.threw THEN "threw" ELSE "again"
  /\ prevLinkEntries' = linkEntries
  /\ prevEntries' = entries
  /\ UNCHANGED <<existingLinkEntries, activeEntryIdx>>

\* Array.prototype.findIndex on the key: 0-based, -1 when absent
findIndexByKey(es, key) ==
  IF \E i \in 1..Len(es) : es[i].key = key
  THEN (CHOOSE i \in 1..Len(es) : es[i].key = key /\ \A k \in 1..(i - 1) : es[k].key # key) - 1
  ELSE -1

\* the note of an UpdateNoteContent whose new text has the outgoing links
\* `links`: a copy of the active entry with the content replaced, key recomputed
withNoteContent(activeEntry, links) == recomputeKey([activeEntry EXCEPT !.links = links])

\* link lists of an edited text
EditedLinkLists == {<<>>, <<"t2", "t1">>}

\* modifyFileEntry for a note whose text was edited
ModifyFileEntry ==
  /\ rpc = "reconciled"
  /\ \E a \in 1..Len(entries), links \in EditedLinkLists :
       /\ isNote(entries[a])
       /\ links # entries[a].links
       /\ LET oldEntry == entries[a]
              newEntry == withNoteContent(oldEntry, links)
              fileEntryIdx == findIndexByKey(fileEntries, oldEntry.key)
              newFileEntries == [fileEntries EXCEPT ![fileEntryIdx + 1] = newEntry]
              r == recomputeEntries(newFileEntries, linkEntries)
          IN  /\ fileEntryIdx # -1
              /\ fileEntries' = r.fileEntries
              /\ linkEntries' = r.linkEntries
              /\ entries' = r.entries
              /\ activeEntryIdx' = IF r.threw THEN NoIdx
                                   ELSE findIndexByKey(r.entries, newEntry.key)
              /\ rpc' = IF r.threw THEN "threw" ELSE "modified"
  /\ prevLinkEntries' = linkEntries
  /\ prevEntries' = entries
  /\ UNCHANGED existingLinkEntries

\* ------------------------------------------------------------------------
\* The canonical order on arbitrary entry lists (sortAndIndexEntries)
\* ------------------------------------------------------------------------

SortTitles == {"a", "A", "B", "z"}

\* entries of the three kinds with arbitrary titles; the key names the
\* position the entry has in the unsorted list
SortEntryPool == [kind : {KindNote, KindDocument, KindLink}, title : SortTitles]

SortInputs ==
  {[i \in 1..Len(s) |-> [kind |-> s[i].kind, title |-> s[i].title,
                          key |-> ToString(i), idx |-> NoIdx]] :
     s \in SeqsUpTo(SortEntryPool, MaxEntries)}

SortAndIndexEntries ==
  /\ spc = "input"
  /\ sortOut' = sortAndIndexEntries(sortIn)
  /\ spc' = "sorted"
  /\ UNCHANGED sortIn

\* ------------------------------------------------------------------------
\* Loading a repository (octokit: listFilesRecursive, downloadFiles,
\* loadEntries) and entry extraction (extractFileEntriesAndUpdateFileMap)
\* ------------------------------------------------------------------------

\* the repositories of a session, in the order MultiRepoFileMap.forEach
\* visits them
AppRepos == <<"r1", "r2">>

ReposOf(allMaps) ==
  LET in(repo) == repo \in DOMAIN allMaps
  IN  SelectSeq(AppRepos, in)

LoadRepo == "r1"

\* the directory "." is the empty path
RootDir == <<>>

LoadDirs ==
  UNION {{SubSeq(LoadPathList[i], 1, k) : k \in 0..(Len(LoadPathList[i]) - 1)} :
           i \in 1..Len(LoadPathList)}

\* path.split(".").pop() of the file names of the model
FileExtension(name) ==
  CASE name \in {"n.md", "A.md", "B.md", "b.md"} -> "md"
    [] name = "b.desktop" -> "desktop"
    [] name = "d.pdf" -> "pdf"
    [] OTHER -> "yaml"

getFileKind(path) ==
  LET ext == toLowerCase(FileExtension(path[Len(path)]))
  IN  IF ext = "md" THEN KindNote
      ELSE IF ext = "desktop" THEN KindLink
      ELSE KindDocument

\* path_utils.isNotemarksFile: the path lies in the reserved folder
isNotemarksFile(path) == path[1] = NOTEMARKS_FOLDER

RECURSIVE JoinPath(_)
JoinPath(path) ==
  IF Len(path) = 1 THEN path[1] ELSE path[1] \o "/" \o JoinPath(Tail(path))

\* [location, filename]: split at the last "/"
splitLocationAndFilename(path) ==
  IF Len(path) = 1 THEN <<"", path[1]>>
  ELSE <<JoinPath(SubSeq(path, 1, Len(path) - 1)), path[Len(path)]>>

\* path_utils.splitLocationTitleExtension on the file names of the model
splitLocationTitleExtension(path) ==
  LET lf == splitLocationAndFilename(path)
      ext == FileExtension(lf[2])
      stem == CASE lf[2] = "n.md" -> "n"
                [] lf[2] = "A.md" -> "A"
                [] lf[2] = "B.md" -> "B"
                [] lf[2] = "b.md" -> "b"
                [] lf[2] = "b.desktop" -> "b"
                [] lf[2] = "d.pdf" -> "d"
                [] OTHER -> lf[2]
  IN  <<lf[1], stem, ext>>

\* --- contents -------------------------------------------------------------

NoteText == "see [t1](t1)"
OtherNoteText == "see [t2](t2)"
PrototypeNoteText == "see [c](constructor)"
PlainText == "plain"
BookmarkText == "[Desktop Entry]"
LinkDBText == "links: []"

MetaStored == [labels |-> <<"a">>, timeCreated |-> "t0", timeUpdated |-> "t0"]

\* io.createNewMetaData: no labels, both timestamps set to now
createNewMetaData == [labels |-> <<>>, timeCreated |-> "now", timeUpdated |-> "now"]

\* io.serializeMetaData
serializeMetaData(metaData) ==
  "labels: [" \o JoinStrings(metaData.labels, ", ") \o "], timeCreated: "
    \o metaData.timeCreated \o ", timeUpdated: " \o metaData.timeUpdated

MetaUnparsable == "labels: [a"

\* io.parseMetaData: Result<MetaData, Error>
parseMetaData(content) ==
  IF content = serializeMetaData(MetaStored) THEN [ok |-> TRUE, value |-> MetaStored]
  ELSE IF content = serializeMetaData(createNewMetaData)
       THEN [ok |-> TRUE, value |-> createNewMetaData]
       ELSE [ok |-> FALSE, value |-> createNewMetaData]

\* markdown_utils.processMarkdownText: the link targets of a note's text
processMarkdownLinks(text) ==
  CASE text = NoteText -> <<"t1">>
    [] text = OtherNoteText -> <<"t2">>
    [] text = PrototypeNoteText -> <<"constructor">>
    [] OTHER -> <<>>

\* --- the remote repository ------------------------------------------------

OptionalFile(path, contents) == {EmptyObject} \cup {path :> c : c \in contents}

\* what the repository holds: path -> content
RemoteRepos ==
  {n @@ nm @@ d @@ dm @@ b @@ l :
     n \in OptionalFile(NotePath, {NoteText}),
     nm \in OptionalFile(getAssociatedMetaPath(NotePath),
                         {serializeMetaData(MetaStored), MetaUnparsable}),
     d \in OptionalFile(DocPath, {"%PDF"}),
     dm \in OptionalFile(getAssociatedMetaPath(DocPath),
                         {serializeMetaData(MetaStored), MetaUnparsable}),
     b \in OptionalFile(BookmarkPath, {BookmarkText}),
     l \in OptionalFile(NOTEMARKS_LINK_DB_PATH, {LinkDBText})}

\* --- recursive file listing -----------------------------------------------

\* response.value.data of octokit.repos.getContent for a directory
responseData(dir, remote) ==
  LET n == Len(dir)
      under(p) == p \in DOMAIN remote /\ Len(p) > n /\ SubSeq(p, 1, n) = dir
      ps == SelectSeq(LoadPathList, under)
      firstOfName(i) == \A j \in 1..(i - 1) : ps[j][n + 1] # ps[i][n + 1]
      idxs == SelectSeq([i \in 1..Len(ps) |-> i], firstOfName)
  IN  [k \in 1..Len(idxs) |->
         [type |-> IF Len(ps[idxs[k]]) > n + 1 THEN "dir" ELSE "file",
          path |-> SubSeq(ps[idxs[k]], 1, n + 1)]]

\* files: what the call pushed to its out parameter; failed: the directories
\* whose request failed (the else branch only logs a warning)
RECURSIVE listFilesRecursive(_, _, _)
listFilesRecursive(dir, remote, failing) ==
  IF dir \in failing THEN [files |-> <<>>, failed |-> {dir}]
  ELSE LET rd == responseData(dir, remote)
           sub == [i \in 1..Len(rd) |->
                     IF rd[i].type = "dir"
                     THEN listFilesRecursive(rd[i].path, remote, failing)
                     ELSE [files |-> <<rd[i].path>>, failed |-> {}]]
       IN  [files |-> FlattenSeq([i \in 1..Len(rd) |-> sub[i].files]),
            failed |-> UNION {sub[i].failed : i \in 1..Len(rd)}]

ListFiles ==
  /\ lpc = "start"
  /\ \E failing \in SUBSET LoadDirs :
       LET r == listFilesRecursive(RootDir, remoteFiles, failing)
       IN  /\ listedFiles' = r.files
           /\ failedReads' = r.failed
  /\ lpc' = "listed"
  /\ UNCHANGED <<remoteFiles, allFileMaps, allFileMapsPatched, allLinkDBs, allErrors, loaded>>

\* --- recursive downloading ------------------------------------------------

NoError == "undefined"
FetchError == "WrappedError"

doFetch(path) == getFileKind(path) # KindDocument \/ path[1] = NOTEMARKS_FOLDER

\* the File a fetch of downloadFiles resolves to
downloadedFile(path, remote, failing) ==
  IF doFetch(path)
  THEN IF path \in failing
       THEN [path |-> path, sha |-> ShaOfContent(remote[path]),
             content |-> Unfetched, error |-> FetchError]
       ELSE [path |-> path, sha |-> ShaOfContent(remote[path]),
             content |-> remote[path], error |-> NoError]
  ELSE [path |-> path, sha |-> ShaOfContent(remote[path]),
        content |-> Unfetched, error |-> NoError]

\* filemap.convertFilesToFileMap: FileMap of a list of files, path -> File
convertFilesToFileMap(downloaded) ==
  [p \in {downloaded[i].path : i \in 1..Len(downloaded)} |->
     downloaded[CHOOSE i \in 1..Len(downloaded) : downloaded[i].path = p]]

\* lines 295-298 of loadEntries
linkDBsOf(fileMap) ==
  IF /\ NOTEMARKS_LINK_DB_PATH \in DOMAIN fileMap
     /\ fileMap[NOTEMARKS_LINK_DB_PATH].content # Unfetched
  THEN LoadRepo :> fileMap[NOTEMARKS_LINK_DB_PATH].content
  ELSE EmptyObject

DownloadFiles ==
  /\ lpc = "listed"
  /\ \E failing \in SUBSET {p \in Range(listedFiles) : doFetch(p)} :
       LET downloaded == [i \in 1..Len(listedFiles) |->
                            downloadedFile(listedFiles[i], remoteFiles, failing)]
           fileMap == convertFilesToFileMap(downloaded)
       IN  /\ allFileMaps' = (LoadRepo :> fileMap)
           /\ allLinkDBs' = linkDBsOf(fileMap)
           /\ failedReads' = failedReads \cup failing
  /\ lpc' = "downloaded"
  /\ UNCHANGED <<remoteFiles, listedFiles, allFileMapsPatched, allErrors, loaded>>

\* --- entry extraction -----------------------------------------------------

NoEntry == [kind |-> "undefined"]

\* filemap.isFileFetched / filemap.isFileInGit
isFileFetched(file) == file.content # Unfetched

NotInGit == "undefined"

isFileInGit(file) == file.sha # NotInGit

constructFileEntryUnfetched(repo, file, metaData) ==
  LET parts == splitLocationTitleExtension(file.path)
  IN  IF getFileKind(file.path) = KindLink THEN NoEntry
      ELSE recomputeKey([kind |-> getFileKind(file.path), title |-> parts[2],
                         priority |-> 0, labels |-> metaData.labels, repo |-> repo,
                         location |-> parts[1], extension |-> parts[3],
                         timeCreated |-> metaData.timeCreated,
                         timeUpdated |-> metaData.timeUpdated,
                         key |-> NoKey, idx |-> NoIdx])
constructFileEntry(repo, file, metaData) ==
  LET fileKind == getFileKind(file.path)
      parts == splitLocationTitleExtension(file.path)
  IN  IF fileKind = KindNote /\ isFileFetched(file)
      THEN recomputeKey([kind |-> KindNote, title |-> parts[2], priority |-> 0,
                         labels |-> metaData.labels, repo |-> repo,
                         location |-> parts[1], extension |-> parts[3],
                         timeCreated |-> metaData.timeCreated,
                         timeUpdated |-> metaData.timeUpdated,
                         text |-> file.content,
                         links |-> processMarkdownLinks(file.content),
                         key |-> NoKey, idx |-> NoIdx])
      ELSE IF fileKind = KindDocument /\ isFileInGit(file)
           THEN recomputeKey([kind |-> KindDocument, title |-> parts[2], priority |-> 0,
                              labels |-> metaData.labels, repo |-> repo,
                              location |-> parts[1], extension |-> parts[3],
                              timeCreated |-> metaData.timeCreated,
                              timeUpdated |-> metaData.timeUpdated,
                              key |-> NoKey, idx |-> NoIdx])
           ELSE NoEntry

\* the diff engine sees a file by its content
ContentView(fileMap) == [p \in DOMAIN fileMap |-> fileMap[p].content]

\* FileMap.setContent: upsert of the content; a prior error is cleared
setContent(fileMap, path, content) ==
  LET file == [path |-> path,
               sha |-> IF path \in DOMAIN fileMap THEN fileMap[path].sha ELSE NotInGit,
               content |-> content, error |-> NoError]
  IN  [p \in DOMAIN fileMap \cup {path} |-> IF p = path THEN file ELSE fileMap[p]]

\* associatedMetaFile != null && associatedMetaFile.content != null
metaFileFetched(fileMap, associatedMetaPath) ==
  /\ associatedMetaPath \in DOMAIN fileMap
  /\ fileMap[associatedMetaPath].content # Unfetched

\* associatedMetaFile != null && associatedMetaFile.error != null
metaFileFetchFailedNever(fileMap, associatedMetaPath) == FALSE
metaFileFetchFailed(fileMap, associatedMetaPath) ==
  /\ associatedMetaPath \in DOMAIN fileMap
  /\ fileMap[associatedMetaPath].error # NoError

\* the value of createMetaDataFromScratch after the three cases
createMetaDataFromScratchWhenAbsent(fileMap, associatedMetaPath) ==
  /\ ~metaFileFetched(fileMap, associatedMetaPath)
  /\ ~metaFileFetchFailed(fileMap, associatedMetaPath)
createMetaDataFromScratch(fileMap, associatedMetaPath) ==
  IF metaFileFetched(fileMap, associatedMetaPath)
  THEN ~parseMetaData(fileMap[associatedMetaPath].content).ok
  ELSE IF metaFileFetchFailed(fileMap, associatedMetaPath) THEN FALSE
       ELSE TRUE

\* the body of fileMap.forEach for one file; st holds fileEntries and the
\* edit-side map of the repository
extractFile(repo, fileMap, file, st) ==
  IF isNotemarksFile(file.path) THEN st
  ELSE LET associatedMetaPath == getAssociatedMetaPath(file.path)
           parsedEntry ==
             constructFileEntry(repo, file,
                                parseMetaData(fileMap[associatedMetaPath].content).value)
           st1 == IF /\ metaFileFetched(fileMap, associatedMetaPath)
                     /\ parseMetaData(fileMap[associatedMetaPath].content).ok
                     /\ parsedEntry # NoEntry
                  THEN [st EXCEPT !.fileEntries = Append(@, parsedEntry)]
                  ELSE st
           newMetaData == createNewMetaData
           newEntry == constructFileEntry(repo, file, newMetaData)
       IN  IF createMetaDataFromScratch(fileMap, associatedMetaPath) /\ newEntry # NoEntry
           THEN [fileEntries |-> Append(st1.fileEntries, newEntry),
                 edit |-> setContent(st1.edit, associatedMetaPath,
                                     serializeMetaData(newMetaData))]
           ELSE st1

RECURSIVE extractLoop(_, _, _, _, _)
extractLoop(repo, fileMap, order, i, st) ==
  IF i > Len(order) THEN st
  ELSE extractLoop(repo, fileMap, order, i + 1,
                   extractFile(repo, fileMap, fileMap[order[i]], st))

\* FileMap.forEach visits the files in the order they were inserted
forEachOrder(fileMap) == PathSeq(fileMap)

\* [fileEntries, allFileMapsEdit]; allFileMapsEdit starts as
\* allFileMapsOrig.clone(), an independent deep copy
extractFileEntriesAndUpdateFileMap(allMapsOrig) ==
  LET ofRepo(repo) == extractLoop(repo, allMapsOrig[repo], forEachOrder(allMapsOrig[repo]), 1,
                                  [fileEntries |-> <<>>, edit |-> allMapsOrig[repo]])
      repos == ReposOf(allMapsOrig)
  IN  [fileEntries |-> FlattenSeq([i \in 1..Len(repos) |-> ofRepo(repos[i]).fileEntries]),
       allFileMapsEdit |-> [repo \in DOMAIN allMapsOrig |-> ofRepo(repo).edit]]

\* the rest of loadEntries after the downloads: allErrors is still the empty
\* list it was created as and is not part of the returned tuple
ExtractAndReturn ==
  /\ lpc = "downloaded"
  /\ LET r == extractFileEntriesAndUpdateFileMap(allFileMaps)
     IN  /\ allFileMapsPatched' = r.allFileMapsEdit
         /\ loaded' = [fileEntries |-> r.fileEntries, allLinkDBs |-> allLinkDBs,
                       stagedChanges |-> EmptyObject]
  /\ lpc' = "done"
  /\ UNCHANGED <<remoteFiles, listedFiles, failedReads, allFileMaps, allLinkDBs, allErrors>>

\* ------------------------------------------------------------------------
\* Path classification (path_utils.getEntryKind)
\* ------------------------------------------------------------------------

\* A path is a sequence of characters; "desktop" stands for that run of
\* letters and "x" for any other character of a name.
PathAlphabet == {"m", "d", "M", "x", "desktop", Dot, Solidus}

lowerCaseChar(c) == IF c = "M" THEN "m" ELSE c

\* path.split(".").pop(): what follows the last "." of the whole path, the
\* whole path when it has none
lastDotPiece(path) ==
  IF LastIndexOf(path, Dot) = -1 THEN path
  ELSE SubSeq(path, LastIndexOf(path, Dot) + 2, Len(path))

getEntryKind(path) ==
  LET piece == lastDotPiece(path)
      ext == [i \in 1..Len(piece) |-> lowerCaseChar(piece[i])]
  IN  IF ext = <<"m", "d">> THEN KindNote
      ELSE IF ext = <<"desktop">> THEN KindLink
      ELSE KindDocument

\* paths of files: no empty component
ClassifiedPaths ==
  {p \in SeqsUpTo(PathAlphabet, MaxPathLen) :
     /\ p # <<>>
     /\ p[1] # Solidus /\ p[Len(p)] # Solidus
     /\ \A i \in 1..(Len(p) - 1) : ~(p[i] = Solidus /\ p[i + 1] = Solidus)}

GetEntryKind ==
  /\ kpc = "input"
  /\ kkind' = getEntryKind(kpath)
  /\ kpc' = "classified"
  /\ UNCHANGED kpath

\* ------------------------------------------------------------------------
\* Recursive file listing, one call at a time (octokit: listFilesRecursive,
\* listFiles)
\* ------------------------------------------------------------------------

\* a call of listFilesRecursive: "requested" while octokit.repos.getContent
\* is in flight, "running" in the loop over responseData at entry next,
\* "awaiting" while the recursive call for entry next runs, "returned" after
\* the function body has ended
Frame(state, next) == [state |-> state, next |-> next]

\* the call made for a directory entry
startCall(frames, dir) == (dir :> Frame("requested", 1)) @@ frames

\* await listFilesRecursive(...): the caller is suspended at the entry
afterRecursiveCallNoAwait(frame) == Frame("running", frame.next + 1)
afterRecursiveCall(frame) == Frame("awaiting", frame.next)

\* listFiles(octokit, repo, "."): the first call
StartListing ==
  /\ lspc = "start"
  /\ lsCalls' = startCall(EmptyObject, RootDir)
  /\ lspc' = "listing"
  /\ UNCHANGED <<lsRemote, lsFiles, lsFailed, lsResult>>

\* the request of a call is answered: the response is ok, or it is an error
\* and the call logs a warning and returns
GetContentResponse ==
  /\ lspc = "listing"
  /\ \E dir \in DOMAIN lsCalls :
       /\ lsCalls[dir].state = "requested"
       /\ \/ /\ lsCalls' = [lsCalls EXCEPT ![dir] = Frame("running", 1)]
             /\ UNCHANGED lsFailed
          \/ /\ lsCalls' = [lsCalls EXCEPT ![dir] = Frame("returned", 1)]
             /\ lsFailed' = lsFailed \cup {dir}
  /\ UNCHANGED <<lsRemote, lsFiles, lsResult, lspc>>

\* one round of the loop over responseData
VisitEntry ==
  /\ lspc = "listing"
  /\ \E dir \in DOMAIN lsCalls :
       LET frame == lsCalls[dir]
           rd == responseData(dir, lsRemote)
       IN  /\ frame.state = "running"
           /\ frame.next <= Len(rd)
           /\ IF rd[frame.next].type = "dir"
              THEN /\ lsCalls' = startCall([lsCalls EXCEPT ![dir] = afterRecursiveCall(frame)],
                                           rd[frame.next].path)
                   /\ UNCHANGED lsFiles
              ELSE /\ lsFiles' = Append(lsFiles, rd[frame.next].path)
                   /\ lsCalls' = [lsCalls EXCEPT ![dir] = Frame("running", frame.next + 1)]
  /\ UNCHANGED <<lsRemote, lsFailed, lsResult, lspc>>

\* the awaited recursive call has returned: the loop goes on
ResumeAfterCall ==
  /\ lspc = "listing"
  /\ \E dir \in DOMAIN lsCalls :
       LET frame == lsCalls[dir]
           rd == responseData(dir, lsRemote)
       IN  /\ frame.state = "awaiting"
           /\ lsCalls[rd[frame.next].path].state = "returned"
           /\ lsCalls' = [lsCalls EXCEPT ![dir] = Frame("running", frame.next + 1)]
  /\ UNCHANGED <<lsRemote, lsFiles, lsFailed, lsResult, lspc>>

\* the loop of a call is through: the call returns
ReturnFromCall ==
  /\ lspc = "listing"
  /\ \E dir \in DOMAIN lsCalls :
       /\ lsCalls[dir].state = "running"
       /\ lsCalls[dir].next > Len(responseData(dir, lsRemote))
       /\ lsCalls' = [lsCalls EXCEPT ![dir] = Frame("returned", @.next)]
  /\ UNCHANGED <<lsRemote, lsFiles, lsFailed, lsResult, lspc>>

\* the first call has returned: listFiles returns files and downloadFiles
\* goes over them
ListFilesResolves ==
  /\ lspc = "listing"
  /\ lsCalls[RootDir].state = "returned"
  /\ lsResult' = lsFiles
  /\ lspc' = "resolved"
  /\ UNCHANGED <<lsRemote, lsCalls, lsFiles, lsFailed>>

\* ------------------------------------------------------------------------
\* The link registry of a repository (entry_utils, io)
\* ------------------------------------------------------------------------

\* repo.getRepoId: the identity of a repository; a repository of the model is
\* its identity
getRepoId(repo) == repo

\* the filter of serializeLinkEntries
linkBelongsToRepoStandaloneOnly(repo, linkEntry) ==
  linkEntry.standaloneRepo # NoRepo /\ getRepoId(linkEntry.standaloneRepo) = getRepoId(repo)
linkBelongsToRepo(repo, linkEntry) ==
  \/ \E i \in 1..Len(linkEntry.refRepos) : getRepoId(linkEntry.refRepos[i]) = getRepoId(repo)
  \/ /\ linkEntry.standaloneRepo # NoRepo
     /\ getRepoId(linkEntry.standaloneRepo) = getRepoId(repo)

\* the map of serializeLinkEntries: the StoredLink of a link entry
storedLinkOf(repo, linkEntry) ==
  [title |-> linkEntry.title, target |-> linkEntry.target, ownLabels |-> linkEntry.ownLabels,
   standalone |-> /\ linkEntry.standaloneRepo # NoRepo
                  /\ getRepoId(linkEntry.standaloneRepo) = getRepoId(repo)]

\* io.serializeStoredLinks
serializeStoredLinks(storedLinks) ==
  LET line(l) == l.title \o " -> " \o l.target \o " {" \o JoinStrings(l.ownLabels, ", ")
                   \o "}" \o (IF l.standalone THEN " standalone" ELSE "")
  IN  "links: [" \o JoinStrings([i \in 1..Len(storedLinks) |-> line(storedLinks[i])], "; ")
        \o "]"

serializeLinkEntries(repo, links) ==
  LET belongs(linkEntry) == linkBelongsToRepo(repo, linkEntry)
      kept == SelectSeq(links, belongs)
  IN  serializeStoredLinks([i \in 1..Len(kept) |-> storedLinkOf(repo, kept[i])])

\* the stored links a registry file can hold: the link on t1 (titled "T1" by
\* the user or by its target) and the link on t2 (titled "Z" and labelled by
\* the user, or titled by its target)
StoredLinksOn(target) ==
  IF target = "t1"
  THEN {[title |-> "T1", target |-> "t1", ownLabels |-> <<>>, standalone |-> TRUE],
        [title |-> "T1", target |-> "t1", ownLabels |-> <<>>, standalone |-> FALSE],
        [title |-> "t1", target |-> "t1", ownLabels |-> <<>>, standalone |-> FALSE]}
  ELSE {[title |-> "Z", target |-> "t2", ownLabels |-> <<"c">>, standalone |-> TRUE],
        [title |-> "Z", target |-> "t2", ownLabels |-> <<"c">>, standalone |-> FALSE],
        [title |-> "t2", target |-> "t2", ownLabels |-> <<>>, standalone |-> FALSE]}

\* the stored link lists a registry file can hold: at most one record for a
\* target, in either order
StoredLinkLists ==
  {<<>>}
    \cup {<<l>> : l \in StoredLinksOn("t1") \cup StoredLinksOn("t2")}
    \cup {<<l1, l2>> : l1 \in StoredLinksOn("t1"), l2 \in StoredLinksOn("t2")}
    \cup {<<l2, l1>> : l1 \in StoredLinksOn("t1"), l2 \in StoredLinksOn("t2")}

\* io.parseStoredLinks: Result<StoredLinks, Error>
parseStoredLinks(content) ==
  IF \E l \in StoredLinkLists : serializeStoredLinks(l) = content
  THEN [ok |-> TRUE,
        value |-> CHOOSE l \in StoredLinkLists : serializeStoredLinks(l) = content]
  ELSE [ok |-> FALSE, value |-> <<>>]

deserializeLinkEntries(repo, content) ==
  LET storedLinks == parseStoredLinks(content)
  IN  [ok |-> storedLinks.ok,
       value |-> [i \in 1..Len(storedLinks.value) |->
                    linkEntryOf(storedLinks.value[i].title, storedLinks.value[i].target,
                                storedLinks.value[i].ownLabels,
                                IF storedLinks.value[i].standalone THEN repo ELSE NoRepo)]]

extractLinkEntriesFromLinkDB(allMaps) ==
  LET ofRepo(repo) ==
        IF /\ NOTEMARKS_LINK_DB_PATH \in DOMAIN allMaps[repo]
           /\ allMaps[repo][NOTEMARKS_LINK_DB_PATH].content # Unfetched
           /\ deserializeLinkEntries(repo, allMaps[repo][NOTEMARKS_LINK_DB_PATH].content).ok
        THEN deserializeLinkEntries(repo, allMaps[repo][NOTEMARKS_LINK_DB_PATH].content).value
        ELSE <<>>
      repos == ReposOf(allMaps)
  IN  FlattenSeq([i \in 1..Len(repos) |-> ofRepo(repos[i])])

\* the maps after stageLinkDBUpdate wrote the registry of every repository
stageLinkDBUpdate(links, allMaps) ==
  [repo \in DOMAIN allMaps |->
     setContent(allMaps[repo], NOTEMARKS_LINK_DB_PATH, serializeLinkEntries(repo, links))]

\* git_ops.diffMultiFileMaps: the diff of every repository
diffMultiFileMaps(allOrig, allEdit) ==
  LET mapOf(allMaps, repo) ==
        IF repo \in DOMAIN allMaps THEN ContentView(allMaps[repo]) ELSE EmptyObject
  IN  [repo \in DOMAIN allOrig \cup DOMAIN allEdit |->
         diffFileMaps(mapOf(allOrig, repo), mapOf(allEdit, repo)).ops]

\* ------------------------------------------------------------------------
\* The application state and its reducer (App.tsx)
\* ------------------------------------------------------------------------

PageMain == "Main"
PageEntryView == "EntryView"
PageNoteEditor == "NoteEditor"
PageCommit == "Commit"

\* the state handed to useReducer; activeEntryIdx undefined is NoIdx
InitialAppState ==
  [entries |-> <<>>, fileEntries |-> <<>>, linkEntries |-> <<>>, labels |-> <<>>,
   isReloading |-> FALSE, activeEntryIdx |-> NoIdx, page |-> PageMain,
   stagedGitOps |-> EmptyObject, allFileMapsOrig |-> EmptyObject,
   allFileMapsEdit |-> EmptyObject]

NoAction == [kind |-> "none", outcome |-> "none"]

\* origIsEdit: allFileMapsOrig and allFileMapsEdit of the state are one object;
\* prevEditIntact: the allFileMapsEdit object of the state handed to the
\* reducer still holds what it held before the call
FreshObjects == [origIsEdit |-> FALSE, prevEditIntact |-> TRUE]

\* MultiRepoFileMap.clone: an independent deep copy
cloneMaps(allMaps) == [fresh |-> TRUE, data |-> allMaps]

\* FileMap.delete: the key is removed
deleteFile(fileMap, path) == [p \in DOMAIN fileMap \ {path} |-> fileMap[p]]

\* allMaps.get(repo)?.data.setContent(path, content)
setContentIn(allMaps, repo, path, content) ==
  IF repo \in DOMAIN allMaps
  THEN [allMaps EXCEPT ![repo] = setContent(@, path, content)]
  ELSE allMaps

\* allMaps.get(repo)?.data.delete(path)
deleteIn(allMaps, repo, path) ==
  IF repo \in DOMAIN allMaps THEN [allMaps EXCEPT ![repo] = deleteFile(@, path)] ELSE allMaps

\* path_utils.getPath by components; a location of the model is "" or one
\* directory
getPathComponents(entry) ==
  LET fname == IF entry.extension # "" THEN entry.title \o "." \o entry.extension
               ELSE entry.title
  IN  IF entry.location = "" THEN <<fname>> ELSE <<entry.location, fname>>

\* path_utils.getPaths
getPaths(entry) ==
  [path |-> getPathComponents(entry),
   metaPath |-> getAssociatedMetaPath(getPathComponents(entry))]

extractMetaData(entry) ==
  [labels |-> entry.labels, timeCreated |-> entry.timeCreated,
   timeUpdated |-> entry.timeUpdated]

\* label_utils.extractLabels: the labels of all entries
extractLabels(es) == normalizeLabels(FlattenSeq([i \in 1..Len(es) |-> es[i].labels]))

\* label_utils.isSameLabels
isSameLabels(oldLabels, newLabels) == normalizeLabels(oldLabels) = normalizeLabels(newLabels)

\* state.entries[state.activeEntryIdx!]: undefined when the index is unset or
\* beyond the list
entryAt(es, idx) == IF idx \in 0..(Len(es) - 1) THEN es[idx + 1] ELSE NoEntry

\* isNote / isLink read entry.content.kind: a TypeError on undefined
kindReadThrows(entry) == entry = NoEntry

\* --- state change helpers --------------------------------------------------

\* the end of modifyFileEntry / modifyLinkEntry, r being what recomputeEntries
\* returned and newActiveEntryIdx what findIndex returned: defined is FALSE
\* where the helper returns undefined
modifiedEntries(listIdx, r, newActiveEntryIdx) ==
  IF listIdx = -1 \/ r.threw \/ newActiveEntryIdx = -1
  THEN [defined |-> FALSE, threw |-> listIdx # -1 /\ r.threw, newFileEntries |-> <<>>,
        newLinkEntries |-> <<>>, newEntries |-> <<>>, newActiveEntryIdx |-> NoIdx]
  ELSE [defined |-> TRUE, threw |-> FALSE, newFileEntries |-> r.fileEntries,
        newLinkEntries |-> r.linkEntries, newEntries |-> r.entries,
        newActiveEntryIdx |-> newActiveEntryIdx]

\* newEntries.findIndex((entry) => entry === newEntry) of modifyFileEntry:
\* newEntry is the object at listIdx of the new file entries, and idx is its
\* position in the sorted list
fileEntryRelocated(listIdx, r) ==
  modifiedEntries(listIdx, r,
                  IF listIdx = -1 \/ r.threw THEN -1 ELSE r.fileEntries[listIdx + 1].idx)

\* the same lookup of modifyLinkEntry: the link lists hold one object for a
\* target, so the object is found by its key
linkEntryKeepsPosition(listIdx, r, newEntry) == modifiedEntries(listIdx, r, listIdx)
linkEntryRelocated(listIdx, r, newEntry) ==
  modifiedEntries(listIdx, r,
                  IF listIdx = -1 \/ r.threw THEN -1
                  ELSE findIndexByKey(r.entries, newEntry.key))

\* newEntries = oldEntries.slice(0); newEntries[listIdx] = newEntry
replacedAt(oldEntries, listIdx, newEntry) ==
  IF listIdx = -1 THEN oldEntries ELSE [oldEntries EXCEPT ![listIdx + 1] = newEntry]

modifyFileEntry(oldFileEntries, oldLinkEntries, oldEntry, newEntry) ==
  fileEntryRelocated(
    findIndexByKey(oldFileEntries, oldEntry.key),
    recomputeEntries(
      replacedAt(oldFileEntries, findIndexByKey(oldFileEntries, oldEntry.key), newEntry),
      oldLinkEntries))

\* the file entries are the objects of oldFileEntries with idx rewritten
modifyLinkEntry(oldFileEntries, oldLinkEntries, oldEntry, newEntry) ==
  linkEntryRelocated(
    findIndexByKey(oldLinkEntries, oldEntry.key),
    recomputeEntries(
      oldFileEntries,
      replacedAt(oldLinkEntries, findIndexByKey(oldLinkEntries, oldEntry.key), newEntry)),
    newEntry)

\* --- the reducer -----------------------------------------------------------

\* what a case of the reducer ends in: the state it returns, or a throw that
\* leaves the state as it was; objs tells the identity of the file map objects
Returned(s, objs) == [state |-> s, outcome |-> "returned", objs |-> objs]
Threw(s, objs) == [state |-> s, outcome |-> "threw", objs |-> objs]

\* return state: no object is created or written
Unchanged(s, objs) == Returned(s, [objs EXCEPT !.prevEditIntact = TRUE])

\* let newAllFileMapsEdit = state.allFileMapsEdit.clone()
newAllFileMapsEditInPlace(s) == [fresh |-> FALSE, data |-> s.allFileMapsEdit]
newAllFileMapsEdit(s) == cloneMaps(s.allFileMapsEdit)

\* the objects after an edit case wrote `written` into newAllFileMapsEdit
objectsAfterEdit(s, objs, working, written) ==
  [origIsEdit |-> ~working.fresh /\ objs.origIsEdit,
   prevEditIntact |-> working.fresh \/ written = s.allFileMapsEdit]

reduceSwitchToPage(s, objs, page) == Unchanged([s EXCEPT !.page = page], objs)

reduceSwitchToEntryViewOnIdx(s, objs, idx) ==
  Unchanged([s EXCEPT !.page = PageEntryView, !.activeEntryIdx = idx], objs)

reduceStartReloading(s, objs) == Unchanged([s EXCEPT !.isReloading = TRUE], objs)

reduceReloadingDoneKeepsOps(s, objs, action) ==
  Returned([s EXCEPT !.isReloading = FALSE, !.entries = action.entries,
                     !.fileEntries = action.fileEntries,
                     !.linkEntries = action.linkEntries, !.labels = action.labels,
                     !.allFileMapsOrig = action.allFileMapsOrig,
                     !.allFileMapsEdit = action.allFileMapsEdit],
           FreshObjects)
reduceReloadingDone(s, objs, action) ==
  Returned([s EXCEPT !.isReloading = FALSE, !.entries = action.entries,
                     !.fileEntries = action.fileEntries,
                     !.linkEntries = action.linkEntries, !.labels = action.labels,
                     !.allFileMapsOrig = action.allFileMapsOrig,
                     !.allFileMapsEdit = action.allFileMapsEdit,
                     !.stagedGitOps = action.stagedGitOps],
           FreshObjects)

\* the return of an edit case: r is what the state change helper returned,
\* written what newAllFileMapsEdit holds after the writes of the case
stagedEdit(s, objs, r, working, written, newLabels) ==
  IF r.threw THEN Threw(s, objs)
  ELSE IF ~r.defined THEN Unchanged(s, objs)
  ELSE Returned([s EXCEPT !.activeEntryIdx = r.newActiveEntryIdx,
                          !.entries = r.newEntries,
                          !.fileEntries = r.newFileEntries,
                          !.linkEntries = r.newLinkEntries,
                          !.allFileMapsEdit = written,
                          !.stagedGitOps = diffMultiFileMaps(s.allFileMapsOrig, written),
                          !.labels = newLabels],
                objectsAfterEdit(s, objs, working, written))

\* lines 359-401: content and sidecar written, registry restaged
noteContentStaged(s, objs, activeEntry, activeEntryModified, content, r, working) ==
  stagedEdit(s, objs, r, working,
    stageLinkDBUpdate(r.newLinkEntries,
      setContentIn(
        setContentIn(working.data, activeEntry.repo, getPathComponents(activeEntry), content),
        activeEntry.repo, getAssociatedMetaPath(getPathComponents(activeEntry)),
        serializeMetaData(extractMetaData(activeEntryModified)))),
    s.labels)

\* activeEntry.content.timeUpdated = date_utils.getDateNow() (line 381): the
\* write goes to the entry object of the state handed in, after the copy
\* activeEntryModified was made; it shows in the new state only where the new
\* file entries still hold that object
withActiveEntryTouched(s, activeEntry, r, now) ==
  LET objectPos == CHOOSE p \in 1..Len(s.fileEntries) :
                     s.fileEntries[p].idx = s.activeEntryIdx
  IN  IF ~r.defined \/ objectPos = findIndexByKey(s.fileEntries, activeEntry.key) + 1
      THEN r
      ELSE [r EXCEPT !.newFileEntries[objectPos].timeUpdated = now,
                     !.newEntries[r.newFileEntries[objectPos].idx + 1].timeUpdated = now]

reduceUpdateNoteContent(s, objs, content, now) ==
  LET activeEntry == entryAt(s.entries, s.activeEntryIdx)
      activeEntryModified ==
        recomputeKey([activeEntry EXCEPT !.text = content,
                                         !.links = processMarkdownLinks(content)])
  IN  IF s.activeEntryIdx = NoIdx THEN Unchanged(s, objs)
      ELSE IF kindReadThrows(activeEntry) THEN Threw(s, objs)
      ELSE IF ~isNote(activeEntry) THEN Unchanged(s, objs)
      ELSE IF content = activeEntry.text THEN Unchanged(s, objs)
      ELSE noteContentStaged(s, objs, activeEntry, activeEntryModified, content,
             withActiveEntryTouched(s, activeEntry,
               modifyFileEntry(s.fileEntries, s.linkEntries, activeEntry, activeEntryModified),
               now),
             newAllFileMapsEdit(s))

\* lines 440-468: old paths deleted, new paths written; the registry is not
\* restaged
entryMetaStaged(s, objs, activeEntry, activeEntryModified, r, working) ==
  stagedEdit(s, objs, r, working,
    setContentIn(
      setContentIn(
        deleteIn(deleteIn(working.data, activeEntryModified.repo, getPaths(activeEntry).path),
                 activeEntryModified.repo, getPaths(activeEntry).metaPath),
        activeEntryModified.repo, getPaths(activeEntryModified).path,
        activeEntryModified.text),
      activeEntryModified.repo, getPaths(activeEntryModified).metaPath,
      serializeMetaData(extractMetaData(activeEntryModified))),
    extractLabels(r.newEntries))

reduceUpdateEntryMeta(s, objs, newTitle, newLabels) ==
  LET activeEntry == entryAt(s.entries, s.activeEntryIdx)
      titleChanged == activeEntry.title # newTitle
      labelsChanged == ~isSameLabels(activeEntry.labels, newLabels)
      activeEntryModified ==
        recomputeKey([activeEntry EXCEPT !.title = newTitle, !.labels = newLabels])
  IN  IF s.activeEntryIdx = NoIdx THEN Unchanged(s, objs)
      ELSE IF kindReadThrows(activeEntry) THEN Threw(s, objs)
      ELSE IF ~isNote(activeEntry) THEN Unchanged(s, objs)
      ELSE IF ~(titleChanged \/ labelsChanged) THEN Unchanged(s, objs)
      ELSE entryMetaStaged(s, objs, activeEntry, activeEntryModified,
             modifyFileEntry(s.fileEntries, s.linkEntries, activeEntry, activeEntryModified),
             newAllFileMapsEdit(s))

\* lines 508-525: registry restaged
linkMetaStaged(s, objs, r, working) ==
  stagedEdit(s, objs, r, working, stageLinkDBUpdate(r.newLinkEntries, working.data),
             extractLabels(r.newEntries))

reduceUpdateLinkEntryMeta(s, objs, newTitle, newOwnLabels) ==
  LET activeEntry == entryAt(s.entries, s.activeEntryIdx)
      titleChanged == activeEntry.title # newTitle
      labelsChanged == ~isSameLabels(activeEntry.ownLabels, newOwnLabels)
      activeEntryModified ==
        recomputeKey([activeEntry EXCEPT !.title = newTitle, !.ownLabels = newOwnLabels])
  IN  IF kindReadThrows(activeEntry) THEN Threw(s, objs)
      ELSE IF ~isLink(activeEntry) THEN Unchanged(s, objs)
      ELSE IF ~(titleChanged \/ labelsChanged) THEN Unchanged(s, objs)
      ELSE linkMetaStaged(s, objs,
             modifyLinkEntry(s.fileEntries, s.linkEntries, activeEntry, activeEntryModified),
             newAllFileMapsEdit(s))

\* allFileMapsOrig: state.allFileMapsEdit.clone()
committedOrigAlias(s) == [fresh |-> FALSE, data |-> s.allFileMapsEdit]
committedOrig(s) == cloneMaps(s.allFileMapsEdit)

reduceSuccessfulCommitKeepsOps(s, objs) ==
  Returned([s EXCEPT !.allFileMapsOrig = committedOrig(s).data],
           [origIsEdit |-> ~committedOrig(s).fresh, prevEditIntact |-> TRUE])
reduceSuccessfulCommit(s, objs) ==
  Returned([s EXCEPT !.allFileMapsOrig = committedOrig(s).data,
                     !.stagedGitOps = EmptyObject],
           [origIsEdit |-> ~committedOrig(s).fresh, prevEditIntact |-> TRUE])

\* --- reloading -------------------------------------------------------------

fetchedFile(path, content) ==
  [path |-> path, sha |-> ShaOfContent(content), content |-> content, error |-> NoError]

\* the stored registry of a repository whose user added the link Z by hand
StoredRegistry == serializeStoredLinks(<<[title |-> "Z", target |-> "t2", ownLabels |-> <<"c">>,
                                         standalone |-> TRUE]>>)

\* repository r1: the note A.md alone, or with its sidecar and a registry
RepoOneBare == convertFilesToFileMap(<<fetchedFile(<<"A.md">>, NoteText)>>)
RepoOneMap ==
  convertFilesToFileMap(
    <<fetchedFile(<<"A.md">>, NoteText),
      fetchedFile(getAssociatedMetaPath(<<"A.md">>), serializeMetaData(MetaStored)),
      fetchedFile(NOTEMARKS_LINK_DB_PATH, StoredRegistry)>>)

\* repository r2: the note docs/b.md with its sidecar
RepoTwoMap ==
  convertFilesToFileMap(
    <<fetchedFile(<<"docs", "b.md">>, NoteText),
      fetchedFile(getAssociatedMetaPath(<<"docs", "b.md">>), serializeMetaData(MetaStored))>>)

\* what loadEntries can fetch as the original maps
LoadedOriginals == {"r1" :> RepoOneBare, ("r1" :> RepoOneMap) @@ ("r2" :> RepoTwoMap)}

\* lines 612-627 of reloadEntries: the registry staged on the loaded edit maps,
\* the diff, the action
reloadStaged(allMapsOrig, r, allMapsEdit) ==
  [threw |-> r.threw, entries |-> r.entries, fileEntries |-> r.fileEntries,
   linkEntries |-> r.linkEntries, labels |-> extractLabels(r.entries),
   allFileMapsOrig |-> allMapsOrig, allFileMapsEdit |-> allMapsEdit,
   stagedGitOps |-> diffMultiFileMaps(allMapsOrig, allMapsEdit)]

\* lines 603-613: the links of the registries, reconciled with the file entries
reloadReconciled(allMapsOrig, extracted, r) ==
  reloadStaged(allMapsOrig, r, stageLinkDBUpdate(r.linkEntries, extracted.allFileMapsEdit))

\* loadEntries resolved to [fileEntries, allFileMapsOrig, allFileMapsEdit]
reloadLoaded(allMapsOrig, extracted) ==
  reloadReconciled(allMapsOrig, extracted,
    recomputeEntries(extracted.fileEntries, extractLinkEntriesFromLinkDB(allMapsOrig)))

\* reloadEntries after the fetch of the original maps: the action it dispatches
reloadEntries(allMapsOrig) ==
  reloadLoaded(allMapsOrig, extractFileEntriesAndUpdateFileMap(allMapsOrig))

\* --- dispatch ----------------------------------------------------------------

Pages == {PageMain, PageCommit}
EditedTexts == {OtherNoteText, PrototypeNoteText}
NewTitles == {"B"}
NewLabelLists == {<<"a">>}
NewLinkTitles == {"Z"}
NewOwnLabelLists == {<<"c">>}

\* what date_utils.getDateNow returns during an edit: later than the stored
\* timestamps
EditTimes == {"t9"}

\* r is what the reducer ended in; an edit counts when it returned another
\* state
Dispatch(kind, r, countsAsEdit) ==
  /\ appPrev' = appState
  /\ appState' = r.state
  /\ appAction' = [kind |-> kind, outcome |-> r.outcome]
  /\ appObjects' = r.objs
  /\ appEdits' = IF kind = "ReloadingDone" THEN 0
                 ELSE IF countsAsEdit /\ r.outcome = "returned" /\ r.state # appState
                      THEN appEdits + 1
                      ELSE appEdits

SwitchToPage ==
  \E page \in Pages :
    Dispatch("SwitchToPage", reduceSwitchToPage(appState, appObjects, page), FALSE)

SwitchToEntryViewOnIdx ==
  \E idx \in 0..(Len(appState.entries) - 1) :
    Dispatch("SwitchToEntryViewOnIdx",
             reduceSwitchToEntryViewOnIdx(appState, appObjects, idx), FALSE)

StartReloading ==
  /\ ~appState.isReloading
  /\ Dispatch("StartReloading", reduceStartReloading(appState, appObjects), FALSE)

\* a reload whose reconciliation threw dispatches nothing
dispatchReloadingDone(action) ==
  /\ ~action.threw
  /\ Dispatch("ReloadingDone", reduceReloadingDone(appState, appObjects, action), FALSE)

ReloadingDone ==
  /\ appState.isReloading
  /\ \E allMapsOrig \in LoadedOriginals : dispatchReloadingDone(reloadEntries(allMapsOrig))

UpdateNoteContent ==
  /\ appEdits < MaxEdits
  /\ \E content \in EditedTexts, now \in EditTimes :
       Dispatch("UpdateNoteContent",
                reduceUpdateNoteContent(appState, appObjects, content, now), TRUE)

UpdateEntryMeta ==
  /\ appEdits < MaxEdits
  /\ \E newTitle \in NewTitles, newLabels \in NewLabelLists :
       Dispatch("UpdateEntryMeta",
                reduceUpdateEntryMeta(appState, appObjects, newTitle, newLabels), TRUE)

UpdateLinkEntryMeta ==
  /\ appEdits < MaxEdits
  /\ \E newTitle \in NewLinkTitles, newOwnLabels \in NewOwnLabelLists :
       Dispatch("UpdateLinkEntryMeta",
                reduceUpdateLinkEntryMeta(appState, appObjects, newTitle, newOwnLabels), TRUE)

\* the callback of the commit page
SuccessfulCommit ==
  /\ appState.page = PageCommit
  /\ Dispatch("SuccessfulCommit", reduceSuccessfulCommit(appState, appObjects), FALSE)

\* ------------------------------------------------------------------------
\* SpecEdit: the edit actions on a session whose repository holds two notes
\* in one directory
\* ------------------------------------------------------------------------

\* repository r1 with the notes A.md and B.md and their sidecars
RepoTwoNotes ==
  convertFilesToFileMap(
    <<fetchedFile(<<"A.md">>, NoteText),
      fetchedFile(<<"B.md">>, PlainText),
      fetchedFile(getAssociatedMetaPath(<<"A.md">>), serializeMetaData(MetaStored)),
      fetchedFile(getAssociatedMetaPath(<<"B.md">>), serializeMetaData(MetaStored))>>)

\* what the first load of the session fetched
EditedOriginals == {"r1" :> RepoTwoNotes, ("r1" :> RepoTwoNotes) @@ ("r2" :> RepoTwoMap)}

\* the state in which the reload of useEffectOnce ends
ReloadingState == [InitialAppState EXCEPT !.isReloading = TRUE]

loadedState(allMapsOrig) ==
  reduceReloadingDone(ReloadingState, FreshObjects, reloadEntries(allMapsOrig)).state

\* ------------------------------------------------------------------------
\* SpecPersist: the link registries written by stageLinkDBUpdate and read back
\* by extractLinkEntriesFromLinkDB
\* ------------------------------------------------------------------------

PersistedTexts == {NoteText, OtherNoteText, PlainText}

\* two repositories, each with one note and its sidecar
persistedRepos(textOne, textTwo) ==
  ("r1" :> convertFilesToFileMap(
             <<fetchedFile(<<"A.md">>, textOne),
               fetchedFile(getAssociatedMetaPath(<<"A.md">>), serializeMetaData(MetaStored))>>))
    @@ ("r2" :> convertFilesToFileMap(
                  <<fetchedFile(<<"docs", "b.md">>, textTwo),
                    fetchedFile(getAssociatedMetaPath(<<"docs", "b.md">>),
                                serializeMetaData(MetaStored))>>))

PersistedRepos ==
  {persistedRepos(textOne, textTwo) : textOne \in PersistedTexts, textTwo \in PersistedTexts}

\* the repository that owns a link the user added by hand, if any
LinkOwners == {NoRepo, "r1", "r2"}

\* the links the user added by hand: the one on t1 and the one on t2
standaloneLinks(ownerOne, ownerTwo) ==
  (IF ownerOne = NoRepo THEN <<>> ELSE <<linkEntryOf("T1", "t1", <<>>, ownerOne)>>)
    \o (IF ownerTwo = NoRepo THEN <<>> ELSE <<linkEntryOf("Z", "t2", <<"c">>, ownerTwo)>>)

\* the link set of a session: the links added by hand reconciled with the
\* notes
currentLinks(files, ownerOne, ownerTwo) ==
  recomputeEntries(files, standaloneLinks(ownerOne, ownerTwo)).linkEntries

StageLinkDBUpdate ==
  /\ regpc = "current"
  /\ regMaps' = stageLinkDBUpdate(regLinks, regMaps)
  /\ regpc' = "staged"
  /\ UNCHANGED <<regFileEntries, regLinks, regReloaded>>

\* reloadEntries, lines 603-610, on the file entries of the session
ReloadLinks ==
  /\ regpc = "staged"
  /\ regReloaded' = recomputeEntries(regFileEntries, extractLinkEntriesFromLinkDB(regMaps))
  /\ regpc' = "reloaded"
  /\ UNCHANGED <<regMaps, regFileEntries, regLinks>>

\* ------------------------------------------------------------------------
\* Specifications
\* ------------------------------------------------------------------------

InitCodec ==
  /\ title \in Titles
  /\ extension \in Extensions
  /\ filename = NoString
  /\ roundTrip = NoString
  /\ cpc = "input"
  /\ fileMapOrig = <<>>
  /\ fileMapEdit = <<>>
  /\ rawOps = <<>>
  /\ ops = <<>>
  /\ oldTree = <<>>
  /\ newTree = <<>>
  /\ mpc = "idle"
  /\ step = "idle"
  /\ last = startChain
  /\ result = NoResult
  /\ calls = <<>>
  /\ oldCommitSHA = NoSha
  /\ newCommitSHA = NoSha
  /\ remoteRef = NoSha
  /\ remoteCommits = <<>>
  /\ remoteTrees = <<>>
  /\ refAtStart = NoSha
  /\ otherWrites = 0
  /\ fileEntries = <<>>
  /\ existingLinkEntries = <<>>
  /\ linkEntries = <<>>
  /\ entries = <<>>
  /\ prevLinkEntries = <<>>
  /\ prevEntries = <<>>
  /\ activeEntryIdx = NoIdx
  /\ rpc = "idle"
  /\ sortIn = <<>>
  /\ sortOut = <<>>
  /\ spc = "idle"
  /\ remoteFiles = <<>>
  /\ listedFiles = <<>>
  /\ failedReads = {}
  /\ allFileMaps = <<>>
  /\ allFileMapsPatched = <<>>
  /\ allLinkDBs = <<>>
  /\ allErrors = <<>>
  /\ loaded = <<>>
  /\ lpc = "idle"
  /\ kpath = <<>>
  /\ kkind = "undefined"
  /\ kpc = "idle"
  /\ lsRemote = <<>>
  /\ lsCalls = <<>>
  /\ lsFiles = <<>>
  /\ lsFailed = {}
  /\ lsResult = <<>>
  /\ lspc = "idle"
  /\ appState = InitialAppState
  /\ appPrev = InitialAppState
  /\ appAction = NoAction
  /\ appObjects = FreshObjects
  /\ appEdits = 0
  /\ regMaps = <<>>
  /\ regFileEntries = <<>>
  /\ regLinks = <<>>
  /\ regReloaded = <<>>
  /\ regpc = "idle"
  /\ sessMounted = FALSE
  /\ sessRemote = <<>>
  /\ sessStarted = 0
  /\ sessReloads = <<>>
  /\ sessInstalled = 0
  /\ sessConfirmOpen = FALSE
  /\ sessCommit = "idle"
  /\ sessRaced = FALSE

InitMaps ==
  /\ fileMapOrig \in FileMaps
  /\ fileMapEdit \in EditMapsOf(fileMapOrig)
  /\ rawOps = <<>>
  /\ ops = <<>>
  /\ oldTree = TreeOf(fileMapOrig)
  /\ newTree = <<>>
  /\ mpc = "maps"
  /\ title = NoString
  /\ extension = NoExtension
  /\ filename = NoString
  /\ roundTrip = NoString
  /\ cpc = "idle"
  /\ step = "idle"
  /\ last = startChain
  /\ result = NoResult
  /\ calls = <<>>
  /\ oldCommitSHA = NoSha
  /\ newCommitSHA = NoSha
  /\ remoteRef = NoSha
  /\ remoteCommits = <<>>
  /\ remoteTrees = <<>>
  /\ refAtStart = NoSha
  /\ otherWrites = 0
  /\ fileEntries = <<>>
  /\ existingLinkEntries = <<>>
  /\ linkEntries = <<>>
  /\ entries = <<>>
  /\ prevLinkEntries = <<>>
  /\ prevEntries = <<>>
  /\ activeEntryIdx = NoIdx
  /\ rpc = "idle"
  /\ sortIn = <<>>
  /\ sortOut = <<>>
  /\ spc = "idle"
  /\ remoteFiles = <<>>
  /\ listedFiles = <<>>
  /\ failedReads = {}
  /\ allFileMaps = <<>>
  /\ allFileMapsPatched = <<>>
  /\ allLinkDBs = <<>>
  /\ allErrors = <<>>
  /\ loaded = <<>>
  /\ lpc = "idle"
  /\ kpath = <<>>
  /\ kkind = "undefined"
  /\ kpc = "idle"
  /\ lsRemote = <<>>
  /\ lsCalls = <<>>
  /\ lsFiles = <<>>
  /\ lsFailed = {}
  /\ lsResult = <<>>
  /\ lspc = "idle"
  /\ appState = InitialAppState
  /\ appPrev = InitialAppState
  /\ appAction = NoAction
  /\ appObjects = FreshObjects
  /\ appEdits = 0
  /\ regMaps = <<>>
  /\ regFileEntries = <<>>
  /\ regLinks = <<>>
  /\ regReloaded = <<>>
  /\ regpc = "idle"
  /\ sessMounted = FALSE
  /\ sessRemote = <<>>
  /\ sessStarted = 0
  /\ sessReloads = <<>>
  /\ sessInstalled = 0
  /\ sessConfirmOpen = FALSE
  /\ sessCommit = "idle"
  /\ sessRaced = FALSE

InitBatch ==
  /\ fileMapOrig = <<>>
  /\ fileMapEdit = <<>>
  /\ rawOps = <<>>
  /\ ops \in OpBatches
  /\ oldTree \in OldTrees
  /\ newTree = <<>>
  /\ mpc = "batch"
  /\ title = NoString
  /\ extension = NoExtension
  /\ filename = NoString
  /\ roundTrip = NoString
  /\ cpc = "idle"
  /\ step = "idle"
  /\ last = startChain
  /\ result = NoResult
  /\ calls = <<>>
  /\ oldCommitSHA = NoSha
  /\ newCommitSHA = NoSha
  /\ remoteRef = NoSha
  /\ remoteCommits = <<>>
  /\ remoteTrees = <<>>
  /\ refAtStart = NoSha
  /\ otherWrites = 0
  /\ fileEntries = <<>>
  /\ existingLinkEntries = <<>>
  /\ linkEntries = <<>>
  /\ entries = <<>>
  /\ prevLinkEntries = <<>>
  /\ prevEntries = <<>>
  /\ activeEntryIdx = NoIdx
  /\ rpc = "idle"
  /\ sortIn = <<>>
  /\ sortOut = <<>>
  /\ spc = "idle"
  /\ remoteFiles = <<>>
  /\ listedFiles = <<>>
  /\ failedReads = {}
  /\ allFileMaps = <<>>
  /\ allFileMapsPatched = <<>>
  /\ allLinkDBs = <<>>
  /\ allErrors = <<>>
  /\ loaded = <<>>
  /\ lpc = "idle"
  /\ kpath = <<>>
  /\ kkind = "undefined"
  /\ kpc = "idle"
  /\ lsRemote = <<>>
  /\ lsCalls = <<>>
  /\ lsFiles = <<>>
  /\ lsFailed = {}
  /\ lsResult = <<>>
  /\ lspc = "idle"
  /\ appState = InitialAppState
  /\ appPrev = InitialAppState
  /\ appAction = NoAction
  /\ appObjects = FreshObjects
  /\ appEdits = 0
  /\ regMaps = <<>>
  /\ regFileEntries = <<>>
  /\ regLinks = <<>>
  /\ regReloaded = <<>>
  /\ regpc = "idle"
  /\ sessMounted = FALSE
  /\ sessRemote = <<>>
  /\ sessStarted = 0
  /\ sessReloads = <<>>
  /\ sessInstalled = 0
  /\ sessConfirmOpen = FALSE
  /\ sessCommit = "idle"
  /\ sessRaced = FALSE

InitCommit ==
  /\ step = "getRef"
  /\ last = startChain
  /\ result = NoResult
  /\ calls = <<>>
  /\ oldCommitSHA = NoSha
  /\ newCommitSHA = NoSha
  /\ remoteTrees \in {<<[p \in D |-> ShaOfPath(p)]>> : D \in SUBSET Paths}
  /\ remoteCommits = <<[message |-> "initial", parents |-> <<>>, tree |-> 1]>>
  /\ remoteRef = 1
  /\ refAtStart = 1
  /\ otherWrites = 0
  /\ fileMapOrig = <<>>
  /\ fileMapEdit = <<>>
  /\ rawOps = <<>>
  /\ ops \in CommitBatches
  /\ oldTree = <<>>
  /\ newTree = <<>>
  /\ mpc = "commit"
  /\ title = NoString
  /\ extension = NoExtension
  /\ filename = NoString
  /\ roundTrip = NoString
  /\ cpc = "idle"
  /\ fileEntries = <<>>
  /\ existingLinkEntries = <<>>
  /\ linkEntries = <<>>
  /\ entries = <<>>
  /\ prevLinkEntries = <<>>
  /\ prevEntries = <<>>
  /\ activeEntryIdx = NoIdx
  /\ rpc = "idle"
  /\ sortIn = <<>>
  /\ sortOut = <<>>
  /\ spc = "idle"
  /\ remoteFiles = <<>>
  /\ listedFiles = <<>>
  /\ failedReads = {}
  /\ allFileMaps = <<>>
  /\ allFileMapsPatched = <<>>
  /\ allLinkDBs = <<>>
  /\ allErrors = <<>>
  /\ loaded = <<>>
  /\ lpc = "idle"
  /\ kpath = <<>>
  /\ kkind = "undefined"
  /\ kpc = "idle"
  /\ lsRemote = <<>>
  /\ lsCalls = <<>>
  /\ lsFiles = <<>>
  /\ lsFailed = {}
  /\ lsResult = <<>>
  /\ lspc = "idle"
  /\ appState = InitialAppState
  /\ appPrev = InitialAppState
  /\ appAction = NoAction
  /\ appObjects = FreshObjects
  /\ appEdits = 0
  /\ regMaps = <<>>
  /\ regFileEntries = <<>>
  /\ regLinks = <<>>
  /\ regReloaded = <<>>
  /\ regpc = "idle"
  /\ sessMounted = FALSE
  /\ sessRemote = <<>>
  /\ sessStarted = 0
  /\ sessReloads = <<>>
  /\ sessInstalled = 0
  /\ sessConfirmOpen = FALSE
  /\ sessCommit = "idle"
  /\ sessRaced = FALSE

NextCodec ==
  \/ TitleToFilename /\ UNCHANGED <<mergeVars, commitVars, reconVars, sortVars, loadVars, classVars, listVars, appVars, regVars, sessVars>>
  \/ FilenameToTitle /\ UNCHANGED <<mergeVars, commitVars, reconVars, sortVars, loadVars, classVars, listVars, appVars, regVars, sessVars>>

SpecCodec == InitCodec /\ [][NextCodec]_vars

NextMerge ==
  \/ DiffFileMaps /\ UNCHANGED <<codecVars, commitVars, reconVars, sortVars, loadVars, classVars, listVars, appVars, regVars, sessVars>>
  \/ ApplyOps /\ UNCHANGED <<codecVars, commitVars, reconVars, sortVars, loadVars, classVars, listVars, appVars, regVars, sessVars>>

Spec == InitMaps /\ [][NextMerge]_vars

NextApplyOps == ApplyOps /\ UNCHANGED <<codecVars, commitVars, reconVars, sortVars, loadVars, classVars, listVars, appVars, regVars, sessVars>>

SpecApplyOps == InitBatch /\ [][NextApplyOps]_vars

NextCommit ==
  \/ CallGetRef /\ UNCHANGED <<codecVars, fileMapOrig, fileMapEdit, rawOps, ops, mpc, reconVars, sortVars, loadVars, classVars, listVars, appVars, regVars, sessVars>>
  \/ CallGetCommit /\ UNCHANGED <<codecVars, fileMapOrig, fileMapEdit, rawOps, ops, mpc, reconVars, sortVars, loadVars, classVars, listVars, appVars, regVars, sessVars>>
  \/ CallGetTree /\ UNCHANGED <<codecVars, fileMapOrig, fileMapEdit, rawOps, ops, mpc, reconVars, sortVars, loadVars, classVars, listVars, appVars, regVars, sessVars>>
  \/ CallCreateTree /\ UNCHANGED <<codecVars, fileMapOrig, fileMapEdit, rawOps, ops, mpc, reconVars, sortVars, loadVars, classVars, listVars, appVars, regVars, sessVars>>
  \/ CallCreateCommit /\ UNCHANGED <<codecVars, fileMapOrig, fileMapEdit, rawOps, ops, mpc, reconVars, sortVars, loadVars, classVars, listVars, appVars, regVars, sessVars>>
  \/ CallUpdateRef /\ UNCHANGED <<codecVars, fileMapOrig, fileMapEdit, rawOps, ops, mpc, reconVars, sortVars, loadVars, classVars, listVars, appVars, regVars, sessVars>>
  \/ MapResult /\ UNCHANGED <<codecVars, fileMapOrig, fileMapEdit, rawOps, ops, mpc, reconVars, sortVars, loadVars, classVars, listVars, appVars, regVars, sessVars>>
  \/ OtherWriterPush /\ UNCHANGED <<codecVars, fileMapOrig, fileMapEdit, rawOps, ops, mpc, reconVars, sortVars, loadVars, classVars, listVars, appVars, regVars, sessVars>>

SpecCommit == InitCommit /\ [][NextCommit]_vars

InitReconcile ==
  /\ fileEntries \in FileEntryLists
  /\ existingLinkEntries \in ExistingLinkLists
  /\ linkEntries = <<>>
  /\ entries = <<>>
  /\ prevLinkEntries = <<>>
  /\ prevEntries = <<>>
  /\ activeEntryIdx = NoIdx
  /\ rpc = "input"
  /\ sortIn = <<>>
  /\ sortOut = <<>>
  /\ spc = "idle"
  /\ title = NoString
  /\ extension = NoExtension
  /\ filename = NoString
  /\ roundTrip = NoString
  /\ cpc = "idle"
  /\ fileMapOrig = <<>>
  /\ fileMapEdit = <<>>
  /\ rawOps = <<>>
  /\ ops = <<>>
  /\ oldTree = <<>>
  /\ newTree = <<>>
  /\ mpc = "idle"
  /\ step = "idle"
  /\ last = startChain
  /\ result = NoResult
  /\ calls = <<>>
  /\ oldCommitSHA = NoSha
  /\ newCommitSHA = NoSha
  /\ remoteRef = NoSha
  /\ remoteCommits = <<>>
  /\ remoteTrees = <<>>
  /\ refAtStart = NoSha
  /\ otherWrites = 0
  /\ remoteFiles = <<>>
  /\ listedFiles = <<>>
  /\ failedReads = {}
  /\ allFileMaps = <<>>
  /\ allFileMapsPatched = <<>>
  /\ allLinkDBs = <<>>
  /\ allErrors = <<>>
  /\ loaded = <<>>
  /\ lpc = "idle"
  /\ kpath = <<>>
  /\ kkind = "undefined"
  /\ kpc = "idle"
  /\ lsRemote = <<>>
  /\ lsCalls = <<>>
  /\ lsFiles = <<>>
  /\ lsFailed = {}
  /\ lsResult = <<>>
  /\ lspc = "idle"
  /\ appState = InitialAppState
  /\ appPrev = InitialAppState
  /\ appAction = NoAction
  /\ appObjects = FreshObjects
  /\ appEdits = 0
  /\ regMaps = <<>>
  /\ regFileEntries = <<>>
  /\ regLinks = <<>>
  /\ regReloaded = <<>>
  /\ regpc = "idle"
  /\ sessMounted = FALSE
  /\ sessRemote = <<>>
  /\ sessStarted = 0
  /\ sessReloads = <<>>
  /\ sessInstalled = 0
  /\ sessConfirmOpen = FALSE
  /\ sessCommit = "idle"
  /\ sessRaced = FALSE

NextReconcile ==
  \/ RecomputeEntries /\ UNCHANGED <<codecVars, mergeVars, commitVars, sortVars, loadVars, classVars, listVars, appVars, regVars, sessVars>>
  \/ RecomputeEntriesAgain /\ UNCHANGED <<codecVars, mergeVars, commitVars, sortVars, loadVars, classVars, listVars, appVars, regVars, sessVars>>
  \/ ModifyFileEntry /\ UNCHANGED <<codecVars, mergeVars, commitVars, sortVars, loadVars, classVars, listVars, appVars, regVars, sessVars>>

SpecReconcile == InitReconcile /\ [][NextReconcile]_vars

InitSort ==
  /\ sortIn \in SortInputs
  /\ sortOut = <<>>
  /\ spc = "input"
  /\ fileEntries = <<>>
  /\ existingLinkEntries = <<>>
  /\ linkEntries = <<>>
  /\ entries = <<>>
  /\ prevLinkEntries = <<>>
  /\ prevEntries = <<>>
  /\ activeEntryIdx = NoIdx
  /\ rpc = "idle"
  /\ title = NoString
  /\ extension = NoExtension
  /\ filename = NoString
  /\ roundTrip = NoString
  /\ cpc = "idle"
  /\ fileMapOrig = <<>>
  /\ fileMapEdit = <<>>
  /\ rawOps = <<>>
  /\ ops = <<>>
  /\ oldTree = <<>>
  /\ newTree = <<>>
  /\ mpc = "idle"
  /\ step = "idle"
  /\ last = startChain
  /\ result = NoResult
  /\ calls = <<>>
  /\ oldCommitSHA = NoSha
  /\ newCommitSHA = NoSha
  /\ remoteRef = NoSha
  /\ remoteCommits = <<>>
  /\ remoteTrees = <<>>
  /\ refAtStart = NoSha
  /\ otherWrites = 0
  /\ remoteFiles = <<>>
  /\ listedFiles = <<>>
  /\ failedReads = {}
  /\ allFileMaps = <<>>
  /\ allFileMapsPatched = <<>>
  /\ allLinkDBs = <<>>
  /\ allErrors = <<>>
  /\ loaded = <<>>
  /\ lpc = "idle"
  /\ kpath = <<>>
  /\ kkind = "undefined"
  /\ kpc = "idle"
  /\ lsRemote = <<>>
  /\ lsCalls = <<>>
  /\ lsFiles = <<>>
  /\ lsFailed = {}
  /\ lsResult = <<>>
  /\ lspc = "idle"
  /\ appState = InitialAppState
  /\ appPrev = InitialAppState
  /\ appAction = NoAction
  /\ appObjects = FreshObjects
  /\ appEdits = 0
  /\ regMaps = <<>>
  /\ regFileEntries = <<>>
  /\ regLinks = <<>>
  /\ regReloaded = <<>>
  /\ regpc = "idle"
  /\ sessMounted = FALSE
  /\ sessRemote = <<>>
  /\ sessStarted = 0
  /\ sessReloads = <<>>
  /\ sessInstalled = 0
  /\ sessConfirmOpen = FALSE
  /\ sessCommit = "idle"
  /\ sessRaced = FALSE

NextSort == SortAndIndexEntries /\ UNCHANGED <<codecVars, mergeVars, commitVars, reconVars, loadVars, classVars, listVars, appVars, regVars, sessVars>>

SpecSort == InitSort /\ [][NextSort]_vars

InitLoad ==
  /\ remoteFiles \in RemoteRepos
  /\ listedFiles = <<>>
  /\ failedReads = {}
  /\ allFileMaps = <<>>
  /\ allFileMapsPatched = <<>>
  /\ allLinkDBs = <<>>
  /\ allErrors = <<>>
  /\ loaded = <<>>
  /\ lpc = "start"
  /\ sortIn = <<>>
  /\ sortOut = <<>>
  /\ spc = "idle"
  /\ fileEntries = <<>>
  /\ existingLinkEntries = <<>>
  /\ linkEntries = <<>>
  /\ entries = <<>>
  /\ prevLinkEntries = <<>>
  /\ prevEntries = <<>>
  /\ activeEntryIdx = NoIdx
  /\ rpc = "idle"
  /\ title = NoString
  /\ extension = NoExtension
  /\ filename = NoString
  /\ roundTrip = NoString
  /\ cpc = "idle"
  /\ fileMapOrig = <<>>
  /\ fileMapEdit = <<>>
  /\ rawOps = <<>>
  /\ ops = <<>>
  /\ oldTree = <<>>
  /\ newTree = <<>>
  /\ mpc = "idle"
  /\ step = "idle"
  /\ last = startChain
  /\ result = NoResult
  /\ calls = <<>>
  /\ oldCommitSHA = NoSha
  /\ newCommitSHA = NoSha
  /\ remoteRef = NoSha
  /\ remoteCommits = <<>>
  /\ remoteTrees = <<>>
  /\ refAtStart = NoSha
  /\ otherWrites = 0
  /\ kpath = <<>>
  /\ kkind = "undefined"
  /\ kpc = "idle"
  /\ lsRemote = <<>>
  /\ lsCalls = <<>>
  /\ lsFiles = <<>>
  /\ lsFailed = {}
  /\ lsResult = <<>>
  /\ lspc = "idle"
  /\ appState = InitialAppState
  /\ appPrev = InitialAppState
  /\ appAction = NoAction
  /\ appObjects = FreshObjects
  /\ appEdits = 0
  /\ regMaps = <<>>
  /\ regFileEntries = <<>>
  /\ regLinks = <<>>
  /\ regReloaded = <<>>
  /\ regpc = "idle"
  /\ sessMounted = FALSE
  /\ sessRemote = <<>>
  /\ sessStarted = 0
  /\ sessReloads = <<>>
  /\ sessInstalled = 0
  /\ sessConfirmOpen = FALSE
  /\ sessCommit = "idle"
  /\ sessRaced = FALSE

NextLoad ==
  \/ ListFiles /\ UNCHANGED <<codecVars, mergeVars, commitVars, reconVars, sortVars, classVars, listVars, appVars, regVars, sessVars>>
  \/ DownloadFiles /\ UNCHANGED <<codecVars, mergeVars, commitVars, reconVars, sortVars, classVars, listVars, appVars, regVars, sessVars>>
  \/ ExtractAndReturn /\ UNCHANGED <<codecVars, mergeVars, commitVars, reconVars, sortVars, classVars, listVars, appVars, regVars, sessVars>>

SpecLoad == InitLoad /\ [][NextLoad]_vars

InitClassify ==
  /\ remoteFiles = <<>>
  /\ listedFiles = <<>>
  /\ failedReads = {}
  /\ allFileMaps = <<>>
  /\ allFileMapsPatched = <<>>
  /\ allLinkDBs = <<>>
  /\ allErrors = <<>>
  /\ loaded = <<>>
  /\ lpc = "idle"
  /\ sortIn = <<>>
  /\ sortOut = <<>>
  /\ spc = "idle"
  /\ fileEntries = <<>>
  /\ existingLinkEntries = <<>>
  /\ linkEntries = <<>>
  /\ entries = <<>>
  /\ prevLinkEntries = <<>>
  /\ prevEntries = <<>>
  /\ activeEntryIdx = NoIdx
  /\ rpc = "idle"
  /\ title = NoString
  /\ extension = NoExtension
  /\ filename = NoString
  /\ roundTrip = NoString
  /\ cpc = "idle"
  /\ fileMapOrig = <<>>
  /\ fileMapEdit = <<>>
  /\ rawOps = <<>>
  /\ ops = <<>>
  /\ oldTree = <<>>
  /\ newTree = <<>>
  /\ mpc = "idle"
  /\ step = "idle"
  /\ last = startChain
  /\ result = NoResult
  /\ calls = <<>>
  /\ oldCommitSHA = NoSha
  /\ newCommitSHA = NoSha
  /\ remoteRef = NoSha
  /\ remoteCommits = <<>>
  /\ remoteTrees = <<>>
  /\ refAtStart = NoSha
  /\ otherWrites = 0
  /\ kpath \in ClassifiedPaths
  /\ kkind = "undefined"
  /\ kpc = "input"
  /\ lsRemote = <<>>
  /\ lsCalls = <<>>
  /\ lsFiles = <<>>
  /\ lsFailed = {}
  /\ lsResult = <<>>
  /\ lspc = "idle"
  /\ appState = InitialAppState
  /\ appPrev = InitialAppState
  /\ appAction = NoAction
  /\ appObjects = FreshObjects
  /\ appEdits = 0
  /\ regMaps = <<>>
  /\ regFileEntries = <<>>
  /\ regLinks = <<>>
  /\ regReloaded = <<>>
  /\ regpc = "idle"
  /\ sessMounted = FALSE
  /\ sessRemote = <<>>
  /\ sessStarted = 0
  /\ sessReloads = <<>>
  /\ sessInstalled = 0
  /\ sessConfirmOpen = FALSE
  /\ sessCommit = "idle"
  /\ sessRaced = FALSE

NextClassify ==
  \/ GetEntryKind /\ UNCHANGED <<codecVars, mergeVars, commitVars, reconVars, sortVars, loadVars, listVars, appVars, regVars, sessVars>>

SpecClassify == InitClassify /\ [][NextClassify]_vars

InitListing ==
  /\ remoteFiles = <<>>
  /\ listedFiles = <<>>
  /\ failedReads = {}
  /\ allFileMaps = <<>>
  /\ allFileMapsPatched = <<>>
  /\ allLinkDBs = <<>>
  /\ allErrors = <<>>
  /\ loaded = <<>>
  /\ lpc = "idle"
  /\ sortIn = <<>>
  /\ sortOut = <<>>
  /\ spc = "idle"
  /\ fileEntries = <<>>
  /\ existingLinkEntries = <<>>
  /\ linkEntries = <<>>
  /\ entries = <<>>
  /\ prevLinkEntries = <<>>
  /\ prevEntries = <<>>
  /\ activeEntryIdx = NoIdx
  /\ rpc = "idle"
  /\ title = NoString
  /\ extension = NoExtension
  /\ filename = NoString
  /\ roundTrip = NoString
  /\ cpc = "idle"
  /\ fileMapOrig = <<>>
  /\ fileMapEdit = <<>>
  /\ rawOps = <<>>
  /\ ops = <<>>
  /\ oldTree = <<>>
  /\ newTree = <<>>
  /\ mpc = "idle"
  /\ step = "idle"
  /\ last = startChain
  /\ result = NoResult
  /\ calls = <<>>
  /\ oldCommitSHA = NoSha
  /\ newCommitSHA = NoSha
  /\ remoteRef = NoSha
  /\ remoteCommits = <<>>
  /\ remoteTrees = <<>>
  /\ refAtStart = NoSha
  /\ otherWrites = 0
  /\ kpath = <<>>
  /\ kkind = "undefined"
  /\ kpc = "idle"
  /\ lsRemote \in RemoteRepos
  /\ lsCalls = <<>>
  /\ lsFiles = <<>>
  /\ lsFailed = {}
  /\ lsResult = <<>>
  /\ lspc = "start"
  /\ appState = InitialAppState
  /\ appPrev = InitialAppState
  /\ appAction = NoAction
  /\ appObjects = FreshObjects
  /\ appEdits = 0
  /\ regMaps = <<>>
  /\ regFileEntries = <<>>
  /\ regLinks = <<>>
  /\ regReloaded = <<>>
  /\ regpc = "idle"
  /\ sessMounted = FALSE
  /\ sessRemote = <<>>
  /\ sessStarted = 0
  /\ sessReloads = <<>>
  /\ sessInstalled = 0
  /\ sessConfirmOpen = FALSE
  /\ sessCommit = "idle"
  /\ sessRaced = FALSE

NextListing ==
  \/ StartListing /\ UNCHANGED <<codecVars, mergeVars, commitVars, reconVars, sortVars, loadVars, classVars, appVars, regVars, sessVars>>
  \/ GetContentResponse /\ UNCHANGED <<codecVars, mergeVars, commitVars, reconVars, sortVars, loadVars, classVars, appVars, regVars, sessVars>>
  \/ VisitEntry /\ UNCHANGED <<codecVars, mergeVars, commitVars, reconVars, sortVars, loadVars, classVars, appVars, regVars, sessVars>>
  \/ ResumeAfterCall /\ UNCHANGED <<codecVars, mergeVars, commitVars, reconVars, sortVars, loadVars, classVars, appVars, regVars, sessVars>>
  \/ ReturnFromCall /\ UNCHANGED <<codecVars, mergeVars, commitVars, reconVars, sortVars, loadVars, classVars, appVars, regVars, sessVars>>
  \/ ListFilesResolves /\ UNCHANGED <<codecVars, mergeVars, commitVars, reconVars, sortVars, loadVars, classVars, appVars, regVars, sessVars>>

SpecListing == InitListing /\ [][NextListing]_vars

InitApp ==
  /\ remoteFiles = <<>>
  /\ listedFiles = <<>>
  /\ failedReads = {}
  /\ allFileMaps = <<>>
  /\ allFileMapsPatched = <<>>
  /\ allLinkDBs = <<>>
  /\ allErrors = <<>>
  /\ loaded = <<>>
  /\ lpc = "idle"
  /\ sortIn = <<>>
  /\ sortOut = <<>>
  /\ spc = "idle"
  /\ fileEntries = <<>>
  /\ existingLinkEntries = <<>>
  /\ linkEntries = <<>>
  /\ entries = <<>>
  /\ prevLinkEntries = <<>>
  /\ prevEntries = <<>>
  /\ activeEntryIdx = NoIdx
  /\ rpc = "idle"
  /\ title = NoString
  /\ extension = NoExtension
  /\ filename = NoString
  /\ roundTrip = NoString
  /\ cpc = "idle"
  /\ fileMapOrig = <<>>
  /\ fileMapEdit = <<>>
  /\ rawOps = <<>>
  /\ ops = <<>>
  /\ oldTree = <<>>
  /\ newTree = <<>>
  /\ mpc = "idle"
  /\ step = "idle"
  /\ last = startChain
  /\ result = NoResult
  /\ calls = <<>>
  /\ oldCommitSHA = NoSha
  /\ newCommitSHA = NoSha
  /\ remoteRef = NoSha
  /\ remoteCommits = <<>>
  /\ remoteTrees = <<>>
  /\ refAtStart = NoSha
  /\ otherWrites = 0
  /\ kpath = <<>>
  /\ kkind = "undefined"
  /\ kpc = "idle"
  /\ lsRemote = <<>>
  /\ lsCalls = <<>>
  /\ lsFiles = <<>>
  /\ lsFailed = {}
  /\ lsResult = <<>>
  /\ lspc = "idle"
  /\ appState = InitialAppState
  /\ appPrev = InitialAppState
  /\ appAction = NoAction
  /\ appObjects = FreshObjects
  /\ appEdits = 0
  /\ regMaps = <<>>
  /\ regFileEntries = <<>>
  /\ regLinks = <<>>
  /\ regReloaded = <<>>
  /\ regpc = "idle"
  /\ sessMounted = FALSE
  /\ sessRemote = <<>>
  /\ sessStarted = 0
  /\ sessReloads = <<>>
  /\ sessInstalled = 0
  /\ sessConfirmOpen = FALSE
  /\ sessCommit = "idle"
  /\ sessRaced = FALSE

NextApp ==
  \/ SwitchToPage /\ UNCHANGED <<codecVars, mergeVars, commitVars, reconVars, sortVars, loadVars, classVars, listVars, regVars, sessVars>>
  \/ SwitchToEntryViewOnIdx /\ UNCHANGED <<codecVars, mergeVars, commitVars, reconVars, sortVars, loadVars, classVars, listVars, regVars, sessVars>>
  \/ StartReloading /\ UNCHANGED <<codecVars, mergeVars, commitVars, reconVars, sortVars, loadVars, classVars, listVars, regVars, sessVars>>
  \/ ReloadingDone /\ UNCHANGED <<codecVars, mergeVars, commitVars, reconVars, sortVars, loadVars, classVars, listVars, regVars, sessVars>>
  \/ UpdateNoteContent /\ UNCHANGED <<codecVars, mergeVars, commitVars, reconVars, sortVars, loadVars, classVars, listVars, regVars, sessVars>>
  \/ UpdateEntryMeta /\ UNCHANGED <<codecVars, mergeVars, commitVars, reconVars, sortVars, loadVars, classVars, listVars, regVars, sessVars>>
  \/ UpdateLinkEntryMeta /\ UNCHANGED <<codecVars, mergeVars, commitVars, reconVars, sortVars, loadVars, classVars, listVars, regVars, sessVars>>
  \/ SuccessfulCommit /\ UNCHANGED <<codecVars, mergeVars, commitVars, reconVars, sortVars, loadVars, classVars, listVars, regVars, sessVars>>

SpecApp == InitApp /\ [][NextApp]_vars

InitEdit ==
  /\ remoteFiles = <<>>
  /\ listedFiles = <<>>
  /\ failedReads = {}
  /\ allFileMaps = <<>>
  /\ allFileMapsPatched = <<>>
  /\ allLinkDBs = <<>>
  /\ allErrors = <<>>
  /\ loaded = <<>>
  /\ lpc = "idle"
  /\ sortIn = <<>>
  /\ sortOut = <<>>
  /\ spc = "idle"
  /\ fileEntries = <<>>
  /\ existingLinkEntries = <<>>
  /\ linkEntries = <<>>
  /\ entries = <<>>
  /\ prevLinkEntries = <<>>
  /\ prevEntries = <<>>
  /\ activeEntryIdx = NoIdx
  /\ rpc = "idle"
  /\ title = NoString
  /\ extension = NoExtension
  /\ filename = NoString
  /\ roundTrip = NoString
  /\ cpc = "idle"
  /\ fileMapOrig = <<>>
  /\ fileMapEdit = <<>>
  /\ rawOps = <<>>
  /\ ops = <<>>
  /\ oldTree = <<>>
  /\ newTree = <<>>
  /\ mpc = "idle"
  /\ step = "idle"
  /\ last = startChain
  /\ result = NoResult
  /\ calls = <<>>
  /\ oldCommitSHA = NoSha
  /\ newCommitSHA = NoSha
  /\ remoteRef = NoSha
  /\ remoteCommits = <<>>
  /\ remoteTrees = <<>>
  /\ refAtStart = NoSha
  /\ otherWrites = 0
  /\ kpath = <<>>
  /\ kkind = "undefined"
  /\ kpc = "idle"
  /\ lsRemote = <<>>
  /\ lsCalls = <<>>
  /\ lsFiles = <<>>
  /\ lsFailed = {}
  /\ lsResult = <<>>
  /\ lspc = "idle"
  /\ appObjects = FreshObjects
  /\ appEdits = 0
  /\ regMaps = <<>>
  /\ regFileEntries = <<>>
  /\ regLinks = <<>>
  /\ regReloaded = <<>>
  /\ regpc = "idle"
  /\ appState \in {loadedState(allMapsOrig) : allMapsOrig \in EditedOriginals}
  /\ appPrev = ReloadingState
  /\ appAction = [kind |-> "ReloadingDone", outcome |-> "returned"]
  /\ sessMounted = FALSE
  /\ sessRemote = <<>>
  /\ sessStarted = 0
  /\ sessReloads = <<>>
  /\ sessInstalled = 0
  /\ sessConfirmOpen = FALSE
  /\ sessCommit = "idle"
  /\ sessRaced = FALSE

NextEdit ==
  \/ SwitchToEntryViewOnIdx /\ UNCHANGED <<codecVars, mergeVars, commitVars, reconVars, sortVars, loadVars, classVars, listVars, regVars, sessVars>>
  \/ UpdateNoteContent /\ UNCHANGED <<codecVars, mergeVars, commitVars, reconVars, sortVars, loadVars, classVars, listVars, regVars, sessVars>>
  \/ UpdateEntryMeta /\ UNCHANGED <<codecVars, mergeVars, commitVars, reconVars, sortVars, loadVars, classVars, listVars, regVars, sessVars>>
  \/ UpdateLinkEntryMeta /\ UNCHANGED <<codecVars, mergeVars, commitVars, reconVars, sortVars, loadVars, classVars, listVars, regVars, sessVars>>

SpecEdit == InitEdit /\ [][NextEdit]_vars

InitPersist ==
  /\ remoteFiles = <<>>
  /\ listedFiles = <<>>
  /\ failedReads = {}
  /\ allFileMaps = <<>>
  /\ allFileMapsPatched = <<>>
  /\ allLinkDBs = <<>>
  /\ allErrors = <<>>
  /\ loaded = <<>>
  /\ lpc = "idle"
  /\ sortIn = <<>>
  /\ sortOut = <<>>
  /\ spc = "idle"
  /\ fileEntries = <<>>
  /\ existingLinkEntries = <<>>
  /\ linkEntries = <<>>
  /\ entries = <<>>
  /\ prevLinkEntries = <<>>
  /\ prevEntries = <<>>
  /\ activeEntryIdx = NoIdx
  /\ rpc = "idle"
  /\ title = NoString
  /\ extension = NoExtension
  /\ filename = NoString
  /\ roundTrip = NoString
  /\ cpc = "idle"
  /\ fileMapOrig = <<>>
  /\ fileMapEdit = <<>>
  /\ rawOps = <<>>
  /\ ops = <<>>
  /\ oldTree = <<>>
  /\ newTree = <<>>
  /\ mpc = "idle"
  /\ step = "idle"
  /\ last = startChain
  /\ result = NoResult
  /\ calls = <<>>
  /\ oldCommitSHA = NoSha
  /\ newCommitSHA = NoSha
  /\ remoteRef = NoSha
  /\ remoteCommits = <<>>
  /\ remoteTrees = <<>>
  /\ refAtStart = NoSha
  /\ otherWrites = 0
  /\ kpath = <<>>
  /\ kkind = "undefined"
  /\ kpc = "idle"
  /\ lsRemote = <<>>
  /\ lsCalls = <<>>
  /\ lsFiles = <<>>
  /\ lsFailed = {}
  /\ lsResult = <<>>
  /\ lspc = "idle"
  /\ appState = InitialAppState
  /\ appPrev = InitialAppState
  /\ appAction = NoAction
  /\ appObjects = FreshObjects
  /\ appEdits = 0
  /\ regMaps \in PersistedRepos
  /\ regFileEntries = extractFileEntriesAndUpdateFileMap(regMaps).fileEntries
  /\ regLinks \in {currentLinks(regFileEntries, ownerOne, ownerTwo) :
                     ownerOne \in LinkOwners, ownerTwo \in LinkOwners}
  /\ regReloaded = <<>>
  /\ regpc = "current"
  /\ sessMounted = FALSE
  /\ sessRemote = <<>>
  /\ sessStarted = 0
  /\ sessReloads = <<>>
  /\ sessInstalled = 0
  /\ sessConfirmOpen = FALSE
  /\ sessCommit = "idle"
  /\ sessRaced = FALSE

NextPersist ==
  \/ StageLinkDBUpdate /\ UNCHANGED <<codecVars, mergeVars, commitVars, reconVars, sortVars, loadVars, classVars, listVars, appVars, sessVars>>
  \/ ReloadLinks /\ UNCHANGED <<codecVars, mergeVars, commitVars, reconVars, sortVars, loadVars, classVars, listVars, appVars, sessVars>>

SpecPersist == InitPersist /\ [][NextPersist]_vars

\* ------------------------------------------------------------------------
\* SpecSession: a session of App with its reloads and commits in flight
\* ------------------------------------------------------------------------

\* runs of reloadEntries explored in one session
MaxReloads == 2

NoCommit ==
  [inFlight |-> FALSE, ops |-> EmptyObject, allFileMapsOrig |-> EmptyObject,
   allFileMapsEdit |-> EmptyObject]

\* a remote repository with the note A.md, its sidecar and a registry
remoteOneNote(text, registry) ==
  (<<"A.md">> :> text)
    @@ (getAssociatedMetaPath(<<"A.md">>) :> serializeMetaData(MetaStored))
    @@ (NOTEMARKS_LINK_DB_PATH :> registry)

\* the remotes a session starts on: a note without links, a note with a link
\* the registry does not hold yet, a note whose link target is "constructor"
Remotes ==
  {"r1" :> remoteOneNote(text, serializeLinkEntries("r1", <<>>)) :
     text \in {PlainText, NoteText, PrototypeNoteText}}

\* what loadEntries fetches from the remote: every file with its content
fetchedMaps(remote) ==
  [repo \in DOMAIN remote |->
     [p \in DOMAIN remote[repo] |-> fetchedFile(p, remote[repo][p])]]

\* the files of a repository after the commit of one operation
committedOp(contents, op) ==
  IF op.kind = "write"
  THEN [p \in DOMAIN contents \cup {op.path} |->
          IF p = op.path THEN op.content ELSE contents[p]]
  ELSE IF op.kind = "delete"
  THEN [p \in DOMAIN contents \ {op.path} |-> contents[p]]
  ELSE [p \in (DOMAIN contents \ {op.pathFrom}) \cup
               (IF op.pathFrom \in DOMAIN contents THEN {op.pathTo} ELSE {}) |->
          IF p = op.pathTo /\ op.pathFrom \in DOMAIN contents
          THEN contents[op.pathFrom] ELSE contents[p]]

\* the files of a repository after commit(repo, ops, commitMsg) succeeded
RECURSIVE committedOps(_, _)
committedOps(contents, batch) ==
  IF batch = <<>> THEN contents
  ELSE committedOps(committedOp(contents, Head(batch)), Tail(batch))

\* the remote after the commit page committed the batch of every repository
committed(remote, multiOps) ==
  [repo \in DOMAIN remote |->
     IF repo \in DOMAIN multiOps THEN committedOps(remote[repo], multiOps[repo])
     ELSE remote[repo]]

anyStagedChange(s) == \E repo \in DOMAIN s.stagedGitOps : Len(s.stagedGitOps[repo]) > 0

removedAt(seq, i) == [k \in 1..(Len(seq) - 1) |-> IF k < i THEN seq[k] ELSE seq[k + 1]]

\* reloadEntries up to its await: StartReloading is dispatched, the fetch runs
startReload ==
  /\ sessStarted < MaxReloads
  /\ Dispatch("StartReloading", reduceStartReloading(appState, appObjects), FALSE)
  /\ sessStarted' = sessStarted + 1
  /\ sessReloads' = Append(sessReloads, sessStarted + 1)

\* useEffectOnce: the initial load
MountApp ==
  /\ ~sessMounted
  /\ sessMounted' = TRUE
  /\ startReload
  /\ UNCHANGED <<sessRemote, sessInstalled, sessConfirmOpen, sessCommit, sessRaced>>

\* onClickMenu on Reload: nothing while a reload runs, a reload at once
\* without staged changes, the confirm dialog otherwise
ClickReload ==
  /\ sessMounted
  /\ ~sessConfirmOpen
  /\ ~appState.isReloading
  /\ IF anyStagedChange(appState)
     THEN /\ sessConfirmOpen' = TRUE
          /\ UNCHANGED <<appVars, sessStarted, sessReloads>>
     ELSE /\ startReload
          /\ UNCHANGED sessConfirmOpen
  /\ UNCHANGED <<sessMounted, sessRemote, sessInstalled, sessCommit, sessRaced>>

\* onOk of the confirm dialog
ConfirmReload ==
  /\ sessConfirmOpen
  /\ sessConfirmOpen' = FALSE
  /\ startReload
  /\ UNCHANGED <<sessMounted, sessRemote, sessInstalled, sessCommit, sessRaced>>

CancelReload ==
  /\ sessConfirmOpen
  /\ sessConfirmOpen' = FALSE
  /\ UNCHANGED <<appVars, sessMounted, sessRemote, sessStarted, sessReloads, sessInstalled,
                 sessCommit, sessRaced>>

\* the rest of a run of reloadEntries once loadEntries resolved: a run whose
\* reconciliation throws ends without a dispatch
reloadResolved(i, action) ==
  /\ sessReloads' = removedAt(sessReloads, i)
  /\ IF action.threw
     THEN UNCHANGED <<appVars, sessInstalled>>
     ELSE /\ Dispatch("ReloadingDone", reduceReloadingDone(appState, appObjects, action), FALSE)
          /\ sessInstalled' = sessReloads[i]
  /\ UNCHANGED <<sessMounted, sessRemote, sessStarted, sessConfirmOpen, sessCommit, sessRaced>>

ReloadResolves ==
  \E i \in 1..Len(sessReloads) : reloadResolved(i, reloadEntries(fetchedMaps(sessRemote)))

\* the pages reached while no dialog is open
SessionSwitchToPage ==
  /\ sessMounted
  /\ ~sessConfirmOpen
  /\ SwitchToPage
  /\ UNCHANGED sessVars

SessionSwitchToEntryView ==
  /\ sessMounted
  /\ ~sessConfirmOpen
  /\ SwitchToEntryViewOnIdx
  /\ UNCHANGED sessVars

\* onUpdateNoteData of the entry view
SessionUpdateEntryMeta ==
  /\ sessMounted
  /\ ~sessConfirmOpen
  /\ appState.page = PageEntryView
  /\ UpdateEntryMeta
  /\ UNCHANGED sessVars

\* the commit page is handed state.stagedGitOps and starts to commit them
StartCommit ==
  /\ sessMounted
  /\ ~sessConfirmOpen
  /\ appState.page = PageCommit
  /\ ~sessCommit.inFlight
  /\ anyStagedChange(appState)
  /\ sessCommit' = [inFlight |-> TRUE, ops |-> appState.stagedGitOps,
                    allFileMapsOrig |-> appState.allFileMapsOrig,
                    allFileMapsEdit |-> appState.allFileMapsEdit]
  /\ UNCHANGED <<appVars, sessMounted, sessRemote, sessStarted, sessReloads, sessInstalled,
                 sessConfirmOpen, sessRaced>>

\* the commit of every repository succeeded: onSuccessfulCommit
CommitSucceeds ==
  /\ sessCommit.inFlight
  /\ sessRemote' = committed(sessRemote, sessCommit.ops)
  /\ sessRaced' = (\/ appState.allFileMapsOrig # sessCommit.allFileMapsOrig
                   \/ appState.allFileMapsEdit # sessCommit.allFileMapsEdit)
  /\ sessCommit' = NoCommit
  /\ Dispatch("SuccessfulCommit", reduceSuccessfulCommit(appState, appObjects), FALSE)
  /\ UNCHANGED <<sessMounted, sessStarted, sessReloads, sessInstalled, sessConfirmOpen>>

\* a commit failed: nothing is dispatched
CommitFails ==
  /\ sessCommit.inFlight
  /\ sessCommit' = NoCommit
  /\ UNCHANGED <<appVars, sessMounted, sessRemote, sessStarted, sessReloads, sessInstalled,
                 sessConfirmOpen, sessRaced>>

InitSession ==
  /\ remoteFiles = <<>>
  /\ listedFiles = <<>>
  /\ failedReads = {}
  /\ allFileMaps = <<>>
  /\ allFileMapsPatched = <<>>
  /\ allLinkDBs = <<>>
  /\ allErrors = <<>>
  /\ loaded = <<>>
  /\ lpc = "idle"
  /\ sortIn = <<>>
  /\ sortOut = <<>>
  /\ spc = "idle"
  /\ fileEntries = <<>>
  /\ existingLinkEntries = <<>>
  /\ linkEntries = <<>>
  /\ entries = <<>>
  /\ prevLinkEntries = <<>>
  /\ prevEntries = <<>>
  /\ activeEntryIdx = NoIdx
  /\ rpc = "idle"
  /\ title = NoString
  /\ extension = NoExtension
  /\ filename = NoString
  /\ roundTrip = NoString
  /\ cpc = "idle"
  /\ fileMapOrig = <<>>
  /\ fileMapEdit = <<>>
  /\ rawOps = <<>>
  /\ ops = <<>>
  /\ oldTree = <<>>
  /\ newTree = <<>>
  /\ mpc = "idle"
  /\ step = "idle"
  /\ last = startChain
  /\ result = NoResult
  /\ calls = <<>>
  /\ oldCommitSHA = NoSha
  /\ newCommitSHA = NoSha
  /\ remoteRef = NoSha
  /\ remoteCommits = <<>>
  /\ remoteTrees = <<>>
  /\ refAtStart = NoSha
  /\ otherWrites = 0
  /\ kpath = <<>>
  /\ kkind = "undefined"
  /\ kpc = "idle"
  /\ lsRemote = <<>>
  /\ lsCalls = <<>>
  /\ lsFiles = <<>>
  /\ lsFailed = {}
  /\ lsResult = <<>>
  /\ lspc = "idle"
  /\ appState = InitialAppState
  /\ appPrev = InitialAppState
  /\ appAction = NoAction
  /\ appObjects = FreshObjects
  /\ appEdits = 0
  /\ regMaps = <<>>
  /\ regFileEntries = <<>>
  /\ regLinks = <<>>
  /\ regReloaded = <<>>
  /\ regpc = "idle"
  /\ sessMounted = FALSE
  /\ sessRemote \in Remotes
  /\ sessStarted = 0
  /\ sessReloads = <<>>
  /\ sessInstalled = 0
  /\ sessConfirmOpen = FALSE
  /\ sessCommit = NoCommit
  /\ sessRaced = FALSE

NextSession ==
  \/ MountApp /\ UNCHANGED <<codecVars, mergeVars, commitVars, reconVars, sortVars, loadVars, classVars, listVars, regVars>>
  \/ ClickReload /\ UNCHANGED <<codecVars, mergeVars, commitVars, reconVars, sortVars, loadVars, classVars, listVars, regVars>>
  \/ ConfirmReload /\ UNCHANGED <<codecVars, mergeVars, commitVars, reconVars, sortVars, loadVars, classVars, listVars, regVars>>
  \/ CancelReload /\ UNCHANGED <<codecVars, mergeVars, commitVars, reconVars, sortVars, loadVars, classVars, listVars, regVars>>
  \/ ReloadResolves /\ UNCHANGED <<codecVars, mergeVars, commitVars, reconVars, sortVars, loadVars, classVars, listVars, regVars>>
  \/ SessionSwitchToPage /\ UNCHANGED <<codecVars, mergeVars, commitVars, reconVars, sortVars, loadVars, classVars, listVars, regVars>>
  \/ SessionSwitchToEntryView /\ UNCHANGED <<codecVars, mergeVars, commitVars, reconVars, sortVars, loadVars, classVars, listVars, regVars>>
  \/ SessionUpdateEntryMeta /\ UNCHANGED <<codecVars, mergeVars, commitVars, reconVars, sortVars, loadVars, classVars, listVars, regVars>>
  \/ StartCommit /\ UNCHANGED <<codecVars, mergeVars, commitVars, reconVars, sortVars, loadVars, classVars, listVars, regVars>>
  \/ CommitSucceeds /\ UNCHANGED <<codecVars, mergeVars, commitVars, reconVars, sortVars, loadVars, classVars, listVars, regVars>>
  \/ CommitFails /\ UNCHANGED <<codecVars, mergeVars, commitVars, reconVars, sortVars, loadVars, classVars, listVars, regVars>>

SpecSession == InitSession /\ [][NextSession]_vars

\* ------------------------------------------------------------------------
\* Helpers of the properties
\* ------------------------------------------------------------------------

Indices(seq) == 1..Len(seq)

\* an entry carried over from the old tree has a sha, a written one a content
IsCarried(e) == "sha" \in DOMAIN e

BlobPaths(tree) == {tree[i].path : i \in {k \in Indices(tree) : tree[k].type = "blob"}}

EntryPaths(tree) == {tree[i].path : i \in Indices(tree)}

HasWrite(batch, p) == \E i \in Indices(batch) : batch[i].kind = "write" /\ batch[i].path = p
HasDelete(batch, p) == \E i \in Indices(batch) : batch[i].kind = "delete" /\ batch[i].path = p
HasMoveFrom(batch, p) == \E i \in Indices(batch) : batch[i].kind = "move" /\ batch[i].pathFrom = p
HasMoveTo(batch, p) == \E i \in Indices(batch) : batch[i].kind = "move" /\ batch[i].pathTo = p
HasMove(batch, p, q) == \E i \in Indices(batch) : batch[i] = OpMove(p, q)

Refers(batch, p) ==
  HasWrite(batch, p) \/ HasDelete(batch, p) \/ HasMoveFrom(batch, p) \/ HasMoveTo(batch, p)

Removed(O, E) == DOMAIN O \ DOMAIN E
Added(O, E) == DOMAIN E \ DOMAIN O

\* ------------------------------------------------------------------------
\* Properties
\* ------------------------------------------------------------------------

\* C1: merging diff(O, E) into the tree of O yields a tree whose blob paths are
\* exactly the paths of E; every entry either carries the unchanged sha of an
\* old blob with the same content, or the content E has at that path.
C1_DiffThenMergeYieldsEdit ==
  mpc = "merged" =>
    /\ BlobPaths(newTree) = DOMAIN fileMapEdit
    /\ \A i \in Indices(newTree) :
         LET e == newTree[i]
         IN  /\ e.type = "blob"
             /\ e.path \in DOMAIN fileMapEdit
             /\ IF IsCarried(e)
                THEN \E q \in DOMAIN fileMapOrig :
                       /\ e.sha = FileSha(q, fileMapOrig[q])
                       /\ fileMapOrig[q] = fileMapEdit[e.path]
                       /\ (fileMapOrig[q] = Unfetched => q = e.path)
                ELSE e.content = fileMapEdit[e.path]

C1_Witness ==
  /\ mpc = "merged"
  /\ \E i \in Indices(ops) : ops[i].kind = "move"
  /\ \E i \in Indices(ops) : ops[i].kind = "write"
  /\ \E i \in Indices(newTree) : IsCarried(newTree[i]) /\ HasMoveTo(ops, newTree[i].path)
  /\ \E i \in Indices(newTree) : ~IsCarried(newTree[i]) /\ newTree[i].path \in DOMAIN fileMapOrig

\* C2: for every title t and every extension argument ext,
\* filenameToTitle(titleToFilename(t, ext)) = t.
C2_RoundTrip == cpc = "decoded" => roundTrip = title

ExampleOrig == (PathList[1] :> "x") @@ (PathList[2] :> "y")
ExampleEdit == (PathList[1] :> "x") @@ (PathList[3] :> "y")

OriginOf(e) == CHOOSE p \in Paths : ShaOfPath(p) = e.sha

\* C5 as stated: the merged tree has no entry of type tree, no carried-over
\* entry whose old path is the target of a write or delete, and no entry at
\* all at a deleted path.
C5_MergeSafetyAnyBatch ==
  mpc = "merged" =>
    /\ \A i \in Indices(newTree) : newTree[i].type # "tree"
    /\ \A i \in Indices(newTree) :
         IsCarried(newTree[i]) =>
           LET o == OriginOf(newTree[i])
           IN  ~HasWrite(ops, o) /\ ~HasDelete(ops, o)
    /\ \A p \in Paths : HasDelete(ops, p) => p \notin EntryPaths(newTree)

\* C5 (amended): the merged tree has no entry of type tree and no carried-over
\* entry whose old path is the target of a write or delete; a deleted path is
\* absent from the merged tree altogether unless the same batch also writes
\* that path or moves another entry onto it.
C5_MergeSafety ==
  mpc = "merged" =>
    /\ \A i \in Indices(newTree) : newTree[i].type # "tree"
    /\ \A i \in Indices(newTree) :
         IsCarried(newTree[i]) =>
           LET o == OriginOf(newTree[i])
           IN  ~HasWrite(ops, o) /\ ~HasDelete(ops, o)
    /\ \A p \in Paths :
         HasDelete(ops, p) /\ ~HasWrite(ops, p) /\ ~HasMoveTo(ops, p)
           => p \notin EntryPaths(newTree)

\* old tree with directory node docs and file docs/b.md, op delete(docs/b.md)
C5_Witness ==
  /\ mpc = "merged"
  /\ \E i \in Indices(oldTree) : oldTree[i].type = "tree" /\ oldTree[i].path = <<"docs">>
  /\ \E i \in Indices(oldTree) : oldTree[i].type = "blob" /\ oldTree[i].path = PathList[2]
  /\ ops = <<OpDelete(PathList[2])>>
  /\ <<"docs">> \notin EntryPaths(newTree)
  /\ PathList[2] \notin EntryPaths(newTree)

\* target of the last move op whose source is p
LastMoveTarget(batch, p) ==
  LET lastIdx == CHOOSE i \in Indices(batch) :
                /\ batch[i].kind = "move" /\ batch[i].pathFrom = p
                /\ \A j \in (i + 1)..Len(batch) :
                     ~(batch[j].kind = "move" /\ batch[j].pathFrom = p)
  IN  batch[lastIdx].pathTo

StepOrder == <<"getRef", "getCommit", "getTree", "createTree", "createCommit", "updateRef">>

Issued(name) == \E i \in Indices(calls) : calls[i].name = name

CallOf(name) == calls[CHOOSE i \in Indices(calls) : calls[i].name = name]

FailMsg(name) ==
  CASE name = "getRef" -> MsgGetRef
    [] name = "getCommit" -> MsgGetCommit
    [] name = "getTree" -> MsgGetTree(CallOf("getTree").arg)
    [] name = "createTree" -> MsgCreateTree
    [] name = "createCommit" -> MsgCreateCommit
    [] name = "updateRef" -> MsgUpdateRef

TruncatedSeen ==
  \E i \in Indices(calls) :
    calls[i].name = "getTree" /\ calls[i].resp.ok /\ calls[i].resp.truncated

\* C7: if the tree returned by the get-tree step is flagged truncated, the
\* sequence ends in an error and never issues create-tree, create-commit or
\* update-ref.
C7_TruncatedTreeGuard ==
  TruncatedSeen =>
    /\ ~Issued("createTree") /\ ~Issued("createCommit") /\ ~Issued("updateRef")
    /\ (step = "done" => result.state = "err" /\ result.msg = MsgTruncated)

C7_Witness ==
  /\ step = "done"
  /\ TruncatedSeen
  /\ result.state = "err"
  /\ Len(calls) = 3

\* C8: the remote steps are issued in the order getRef, getCommit, getTree,
\* createTree, createCommit, updateRef, each at most once and only after the
\* previous step succeeded; after a failed step no later step is issued and
\* the result is that step's error.
C8_StepOrder ==
  /\ Len(calls) <= Len(StepOrder)
  /\ \A i \in Indices(calls) : calls[i].name = StepOrder[i]
  /\ \A i \in Indices(calls) : i < Len(calls) => calls[i].resp.ok
  /\ \A i \in Indices(calls) :
       (~calls[i].resp.ok /\ step = "done") =>
         /\ result.state = "err"
         /\ result.msg = FailMsg(calls[i].name)
         /\ result.originalError = calls[i].resp.originalError

C8_Witness ==
  /\ step = "done"
  /\ Len(calls) = 5
  /\ ~calls[5].resp.ok
  /\ result.msg = MsgCreateCommit

\* C9: commit returns success only if the update-ref step succeeded; when it
\* returns an error and no other writer pushed, the branch ref still points to
\* the commit it pointed to when the sequence started; no run reports success
\* while the ref is unchanged.
C9_NoPartialSuccess ==
  step = "done" =>
    /\ (result.state = "ok" => Issued("updateRef") /\ CallOf("updateRef").resp.ok)
    /\ (result.state = "err" /\ otherWrites = 0 => remoteRef = refAtStart)
    /\ (result.state = "ok" => remoteRef # refAtStart)

\* the sequence failed after it had created a tree and a commit: the ref is
\* unchanged and the created objects are orphaned
C9_Witness ==
  /\ step = "done"
  /\ result.state = "err"
  /\ otherWrites = 0
  /\ Issued("updateRef")
  /\ Len(remoteCommits) = 2
  /\ remoteRef = refAtStart

\* C10: on success the created commit has exactly one parent, the sha obtained
\* by the get-ref step, and its tree is the sha returned by create-tree; the
\* ref is updated to the created commit with force enabled, so the remote
\* never rejects the update because the branch advanced; the value returned is
\* the created commit's sha.
C10_SuccessfulCommit ==
  /\ (step = "done" /\ result.state = "ok") =>
       /\ result.value = newCommitSHA
       /\ result.value = CallOf("createCommit").resp.sha
       /\ result.value \in DOMAIN remoteCommits
       /\ remoteCommits[result.value].parents = <<CallOf("getRef").resp.sha>>
       /\ remoteCommits[result.value].tree = CallOf("createTree").resp.sha
       /\ CallOf("updateRef").arg = [ref |-> HeadRef, sha |-> result.value, force |-> TRUE]
       /\ CallOf("updateRef").resp.ok
       \* the ref points at the created commit, or at a later push on top of it
       /\ IsAncestor(remoteCommits, result.value, remoteRef)
       /\ (otherWrites = 0 => remoteRef = result.value)
  /\ \A i \in Indices(calls) :
       calls[i].name = "updateRef" => calls[i].resp.originalError # "not a fast forward"

\* success although the branch advanced after get-ref
C10_Witness ==
  /\ step = "done"
  /\ result.state = "ok"
  /\ CallOf("updateRef").refBefore # CallOf("getRef").resp.sha
  /\ remoteRef = result.value

\* ------------------------------------------------------------------------
\* Properties of the link reconciliation
\* ------------------------------------------------------------------------

\* the notes among the file entries that list target t
NotesListing(t) ==
  {i \in Indices(fileEntries) :
     isNote(fileEntries[i]) /\ t \in Range(fileEntries[i].links)}

ResultTargets == {linkEntries[j].target : j \in Indices(linkEntries)}

ResultsFor(t) == {j \in Indices(linkEntries) : linkEntries[j].target = t}

\* the first record of the existing links with target t
FirstExisting(t) ==
  existingLinkEntries[CHOOSE i \in Indices(existingLinkEntries) :
                        /\ existingLinkEntries[i].target = t
                        /\ \A k \in 1..(i - 1) : existingLinkEntries[k].target # t]

ExistingTargets == {existingLinkEntries[i].target : i \in Indices(existingLinkEntries)}

\* C11: an existing link that is standalone and referenced by no note is
\* present in the result list of recomputeLinkEntries, also when the existing
\* links hold another record with the same target.
C11_StandalonePersists ==
  rpc \in {"reconciled", "threw"} =>
    \A i \in Indices(existingLinkEntries) :
      LET link == existingLinkEntries[i]
      IN  (isStandalone(link) /\ NotesListing(link.target) = {})
            => /\ rpc = "reconciled"
               /\ \E j \in Indices(linkEntries) :
                    /\ linkEntries[j].target = link.target
                    /\ linkEntries[j].standaloneRepo = link.standaloneRepo

\* C12: a target is in the result list exactly when some existing link with
\* that target is standalone or some note lists the target; an existing
\* non-standalone link without references is absent from the result.
C12_ResultTargets ==
  rpc \in {"reconciled", "threw"} =>
    /\ rpc = "reconciled"
    /\ \A t \in Targets :
         t \in ResultTargets <=>
           \/ \E i \in Indices(existingLinkEntries) :
                existingLinkEntries[i].target = t /\ isStandalone(existingLinkEntries[i])
           \/ NotesListing(t) # {}
    /\ \A j \in Indices(linkEntries) :
         isStandalone(linkEntries[j]) \/ linkEntries[j].referencedBy # <<>>

\* C13: the result list never holds two link entries with the same target;
\* of existing records with the same target the first is the one kept; a link
\* referenced several times is in the list once, whether it was emitted as
\* standalone, found in the lookup or newly synthesized.
C13_NoDuplicateTargets ==
  rpc \in {"reconciled", "again", "modified"} =>
    /\ \A j, k \in Indices(linkEntries) :
         linkEntries[j].target = linkEntries[k].target => j = k
    /\ \A j \in Indices(linkEntries) :
         LET e == linkEntries[j]
         IN  IF rpc = "reconciled" /\ e.target \in ExistingTargets
             THEN /\ e.title = FirstExisting(e.target).title
                  /\ e.ownLabels = FirstExisting(e.target).ownLabels
                  /\ e.standaloneRepo = FirstExisting(e.target).standaloneRepo
             ELSE rpc = "reconciled" => (e.title = e.target /\ e.ownLabels = <<>>)
    /\ \A t \in Targets :
         (NotesListing(t) # {} /\ t \notin ObjectPrototypeKeys)
           => Cardinality(ResultsFor(t)) = 1

\* duplicate existing records of t1, of which the first is standalone, and two
\* notes that both list t1 and t2, one of them t1 twice
C13_Witness ==
  /\ rpc = "reconciled"
  /\ Len(existingLinkEntries) = 2
  /\ existingLinkEntries[1].target = "t1" /\ existingLinkEntries[2].target = "t1"
  /\ isStandalone(existingLinkEntries[1])
  /\ Cardinality(NotesListing("t1")) = 2
  /\ Cardinality(NotesListing("t2")) = 1
  /\ \E i \in Indices(fileEntries) :
       isNote(fileEntries[i]) /\ fileEntries[i].links = <<"t1", "t1">>
  /\ Len(linkEntries) = 2
  /\ linkEntries[1].title = "T1"
  /\ Len(linkEntries[1].referencedBy) = 3
  /\ linkEntries[2].target = "t2"

\* C14: when two notes in different locations each list the same target, the
\* result has exactly one link entry for the target; its back-reference list
\* holds both notes and has length 2, its reference locations hold both
\* locations once each in insertion order, and its label set is the union of
\* the link's own labels and both notes' labels.
C14_ReferenceAggregation ==
  rpc \in {"reconciled", "threw"} =>
    \A a, b \in Indices(fileEntries), t \in Targets :
      (/\ a < b
       /\ {a, b} \subseteq NotesListing(t)
       /\ fileEntries[a].location # fileEntries[b].location)
      => /\ rpc = "reconciled"
         /\ Cardinality(ResultsFor(t)) = 1
         /\ \A j \in ResultsFor(t) :
              LET e == linkEntries[j]
              IN  /\ Len(e.referencedBy) = 2
                  /\ e.referencedBy = <<fileEntries[a].key, fileEntries[b].key>>
                  /\ e.refLocations = <<fileEntries[a].location, fileEntries[b].location>>
                  /\ Range(e.labels) = Range(e.ownLabels) \cup Range(fileEntries[a].labels)
                                         \cup Range(fileEntries[b].labels)

\* a link entry with its label list read as a set
WithLabelSet(e) == IF isLink(e) THEN [e EXCEPT !.labels = Range(@)] ELSE e

LabelSetsOf(es) == [i \in Indices(es) |-> WithLabelSet(es[i])]

KindRank(k) == CASE k = KindNote -> 0 [] k = KindDocument -> 1 [] k = KindLink -> 2

\* position (from 1) an entry of the sorted list had in the unsorted list
InputPos(e) == CHOOSE p \in Indices(sortIn) : sortIn[p].key = e.key

\* a before b in the canonical order, or tied with it
OrderedOrTied(a, b) ==
  \/ KindRank(a.kind) < KindRank(b.kind)
  \/ /\ a.kind = b.kind
     /\ CollationRank(toLowerCase(a.title)) <= CollationRank(toLowerCase(b.title))

Tied(a, b) == a.kind = b.kind /\ toLowerCase(a.title) = toLowerCase(b.title)

KindsAndTitles(es) == [i \in Indices(es) |-> <<es[i].kind, es[i].title>>]

ExampleUnsorted ==
  <<<<KindLink, "z">>, <<KindNote, "B">>, <<KindDocument, "a">>, <<KindNote, "A">>>>

ExampleSorted ==
  <<<<KindNote, "A">>, <<KindNote, "B">>, <<KindDocument, "a">>, <<KindLink, "z">>>>

\* C16: the sorted sequence holds the entries of the input, ordered by kind
\* rank Note < Document < Link and within a kind by lower-cased title; entries
\* of equal kind and equal lower-cased title keep their input order; every
\* entry's idx is its position, counted from 0. [Link z, Note B, Document a,
\* Note A] sorts to [Note A, Note B, Document a, Link z].
C16_CanonicalOrder ==
  spc = "sorted" =>
    /\ Len(sortOut) = Len(sortIn)
    /\ \A p \in Indices(sortIn) :
         \E i \in Indices(sortOut) : sortOut[i] = [sortIn[p] EXCEPT !.idx = i - 1]
    /\ \A i, j \in Indices(sortOut) :
         i < j => /\ OrderedOrTied(sortOut[i], sortOut[j])
                  /\ (Tied(sortOut[i], sortOut[j])
                        => InputPos(sortOut[i]) < InputPos(sortOut[j]))
    /\ \A i \in Indices(sortOut) : sortOut[i].idx = i - 1
    /\ (KindsAndTitles(sortIn) = ExampleUnsorted => KindsAndTitles(sortOut) = ExampleSorted)

\* two notes titled "a" and "A", in this order, behind a link and a document
C16_Witness ==
  /\ spc = "sorted"
  /\ KindsAndTitles(sortIn)
       = <<<<KindLink, "z">>, <<KindNote, "a">>, <<KindDocument, "B">>, <<KindNote, "A">>>>
  /\ KindsAndTitles(sortOut)
       = <<<<KindNote, "a">>, <<KindNote, "A">>, <<KindDocument, "B">>, <<KindLink, "z">>>>
  /\ sortOut[2].key = "4"
  /\ sortOut[2].idx = 1

KeysOf(es) == [i \in Indices(es) |-> es[i].key]

\* C17 as stated: the key of a Note or Document is {repoKey}:{path} and the
\* key of a Link is exactly its target string.
C17_LinkKeyIsTarget ==
  rpc \in {"reconciled", "again", "modified"} =>
    \A i \in Indices(entries) :
      IF isLink(entries[i])
      THEN entries[i].key = entries[i].target
      ELSE entries[i].key = entries[i].repo \o ":" \o getPath(entries[i])

\* C17 (amended): the key of a Note or Document is {repoKey}:{path} and the
\* key of a Link is "__link_" followed by its target; a further reconciliation
\* pass leaves the key of every entry unchanged, and a content edit of a note
\* leaves the note's key and the key of every entry that stays unchanged.
C17_KeyFromSource ==
  /\ rpc \in {"reconciled", "again", "modified"} =>
       \A i \in Indices(entries) :
         IF isLink(entries[i])
         THEN entries[i].key = "__link_" \o entries[i].target
         ELSE entries[i].key = entries[i].repo \o ":" \o getPath(entries[i])
  /\ rpc = "again" => KeysOf(entries) = KeysOf(prevEntries)
  /\ rpc = "modified" =>
       /\ KeysOf(fileEntries) = [i \in Indices(fileEntries) |->
                                  prevEntries[findIndexByKey(prevEntries, fileEntries[i].key) + 1].key]
       /\ \A i \in Indices(entries), j \in Indices(prevEntries) :
            (isLink(entries[i]) /\ isLink(prevEntries[j])
               /\ entries[i].target = prevEntries[j].target)
              => entries[i].key = prevEntries[j].key

\* a content edit that removed one link and kept another, after a pass that
\* synthesized both
C17_Witness ==
  /\ rpc = "modified"
  /\ Len(prevLinkEntries) = 2
  /\ Len(linkEntries) = 1
  /\ \E i \in Indices(entries) : isLink(entries[i]) /\ entries[i].key = "__link_t1"
  /\ \E j \in Indices(prevEntries) : isLink(prevEntries[j]) /\ prevEntries[j].key = "__link_t1"
  /\ activeEntryIdx # NoIdx
  /\ isNote(entries[activeEntryIdx + 1])
  /\ entries[activeEntryIdx + 1].links = <<>>


\* ------------------------------------------------------------------------
\* Entry extraction and load errors (C18 - C20), under SpecLoad
\* ------------------------------------------------------------------------

OrigMap == allFileMaps[LoadRepo]
EditMap == allFileMapsPatched[LoadRepo]

\* the tracked content paths of the downloaded map
ContentPaths == {p \in DOMAIN OrigMap : ~isNotemarksFile(p)}

\* positions of the extracted entries built for content path p
EntriesOf(p) ==
  {i \in 1..Len(loaded.fileEntries) :
     loaded.fileEntries[i].key = LoadRepo \o ":" \o JoinPath(p)}

SidecarFetchFailed(p) ==
  /\ getAssociatedMetaPath(p) \in DOMAIN OrigMap
  /\ OrigMap[getAssociatedMetaPath(p)].error = FetchError

SidecarAbsent(p) == getAssociatedMetaPath(p) \notin DOMAIN OrigMap

SidecarUnparsable(p) ==
  /\ getAssociatedMetaPath(p) \in DOMAIN OrigMap
  /\ OrigMap[getAssociatedMetaPath(p)].content = MetaUnparsable

\* C18: after the extraction, a tracked content path whose sidecar is in the
\* file map with a failed fetch has no entry, and the edit-side map holds the
\* sidecar exactly as the original map does (nothing synthesized is staged).
C18_FetchFailedSidecar ==
  lpc = "done" =>
    \A p \in ContentPaths :
      SidecarFetchFailed(p) =>
        /\ EntriesOf(p) = {}
        /\ EditMap[getAssociatedMetaPath(p)] = OrigMap[getAssociatedMetaPath(p)]

\* a fetched note and a document, both with a sidecar whose fetch failed,
\* went through the extraction
C18_Witness ==
  /\ lpc = "done"
  /\ NotePath \in ContentPaths /\ isFileFetched(OrigMap[NotePath])
  /\ SidecarFetchFailed(NotePath)
  /\ DocPath \in ContentPaths /\ SidecarFetchFailed(DocPath)

\* the entry of p is built from freshly synthesized metadata, the synthesized
\* sidecar is in the edit-side map and the original map holds what was
\* downloaded
FreshEntryAndSidecar(p) ==
  /\ Cardinality(EntriesOf(p)) = 1
  /\ \A i \in EntriesOf(p) :
       /\ loaded.fileEntries[i].labels = createNewMetaData.labels
       /\ loaded.fileEntries[i].timeCreated = createNewMetaData.timeCreated
       /\ loaded.fileEntries[i].timeUpdated = createNewMetaData.timeUpdated
  /\ getAssociatedMetaPath(p) \in DOMAIN EditMap
  /\ EditMap[getAssociatedMetaPath(p)].content = serializeMetaData(createNewMetaData)
  /\ EditMap[getAssociatedMetaPath(p)].error = NoError
  /\ SidecarAbsent(p) \/ SidecarUnparsable(p)

\* the diff of the original map against the edit-side map is one write of the
\* synthesized content for every sidecar path of S and nothing else
DiffWritesExactly(S) ==
  LET d == diffFileMaps(ContentView(OrigMap), ContentView(EditMap)).ops
  IN  /\ Range(d) = {OpWrite(getAssociatedMetaPath(p), serializeMetaData(createNewMetaData)) :
                       p \in S}
      /\ Len(d) = Cardinality(S)

\* C19 as stated: after the extraction, every tracked content path whose
\* sidecar is absent or unparsable has an entry built from fresh metadata and
\* its synthesized sidecar in the edit-side map only, and the diff holds a
\* write for exactly those sidecar paths.
C19_FreshSidecarForEveryPath ==
  lpc = "done" =>
    LET S == {p \in ContentPaths : SidecarAbsent(p) \/ SidecarUnparsable(p)}
    IN  /\ \A p \in S : FreshEntryAndSidecar(p)
        /\ DiffWritesExactly(S)

\* an entry can be built from the file: a note whose content is fetched, or a
\* document
Derivable(p) ==
  \/ getFileKind(p) = KindNote /\ isFileFetched(OrigMap[p])
  \/ getFileKind(p) = KindDocument

\* C19 amended: after the extraction, every tracked note whose content was
\* fetched and every tracked document whose sidecar is absent or unparsable
\* has exactly one entry, built from fresh metadata, and its synthesized
\* sidecar in the edit-side map only; the other paths of the edit-side map
\* are as downloaded, and the diff of the original against the edit-side map
\* holds a write for exactly those sidecar paths.
C19_FreshSidecarForDerivable ==
  lpc = "done" =>
    LET S == {p \in ContentPaths :
                Derivable(p) /\ (SidecarAbsent(p) \/ SidecarUnparsable(p))}
    IN  /\ \A p \in S : FreshEntryAndSidecar(p)
        /\ \A q \in DOMAIN EditMap :
             q \notin {getAssociatedMetaPath(p) : p \in S} =>
               q \in DOMAIN OrigMap /\ EditMap[q] = OrigMap[q]
        /\ DOMAIN OrigMap \subseteq DOMAIN EditMap
        /\ DiffWritesExactly(S)

\* a fetched note without sidecar and a document with an unparsable sidecar
\* went through the extraction
C19_Witness ==
  /\ lpc = "done"
  /\ NotePath \in ContentPaths /\ isFileFetched(OrigMap[NotePath])
  /\ SidecarAbsent(NotePath)
  /\ DocPath \in ContentPaths /\ SidecarUnparsable(DocPath)
  /\ Len(loaded.fileEntries) = 2

\* C20: when the load has completed, the load errors hold one error for
\* every remote read that failed (directory listing, content fetch, sidecar
\* fetch).
C20_AllReadFailuresReported ==
  lpc = "done" => Len(allErrors) = Cardinality(failedReads)

\* the ops of a batch that refer to path p
OpsOn(batch, p) ==
  {i \in 1..Len(batch) :
     IF batch[i].kind = "move" THEN batch[i].pathFrom = p \/ batch[i].pathTo = p
     ELSE batch[i].path = p}

NoteFetchFailed(p) ==
  /\ getFileKind(p) = KindNote
  /\ OrigMap[p].error = FetchError

\* C21: after a load, a markdown file whose content fetch failed has no
\* entry, no sidecar is synthesized for it (the edit-side map holds at its
\* sidecar path what the original map holds, or nothing), the file is in the
\* original and in the edit-side map, and the diff of the two maps has no op
\* on its path.
C21_FetchFailedNote ==
  lpc = "done" =>
    \A p \in ContentPaths :
      NoteFetchFailed(p) =>
        /\ EntriesOf(p) = {}
        /\ IF getAssociatedMetaPath(p) \in DOMAIN OrigMap
           THEN /\ getAssociatedMetaPath(p) \in DOMAIN EditMap
                /\ EditMap[getAssociatedMetaPath(p)] = OrigMap[getAssociatedMetaPath(p)]
           ELSE getAssociatedMetaPath(p) \notin DOMAIN EditMap
        /\ p \in DOMAIN OrigMap /\ p \in DOMAIN EditMap
        /\ EditMap[p] = OrigMap[p]
        /\ LET d == diffFileMaps(ContentView(OrigMap), ContentView(EditMap))
           IN  OpsOn(d.ops, p) = {} /\ OpsOn(d.raw, p) = {}

\* a note without sidecar whose fetch failed was extracted next to a document
\* that got a synthesized sidecar
C21_Witness ==
  /\ lpc = "done"
  /\ NotePath \in ContentPaths /\ NoteFetchFailed(NotePath)
  /\ SidecarAbsent(NotePath)
  /\ DocPath \in ContentPaths /\ SidecarAbsent(DocPath)
  /\ Len(loaded.fileEntries) = 1

\* ------------------------------------------------------------------------
\* Path classification (C22), under SpecClassify
\* ------------------------------------------------------------------------

\* the final component of the path and its extension, none when the
\* component has no "."
FinalComponent(path) ==
  IF LastIndexOf(path, Solidus) = -1 THEN path
  ELSE SubSeq(path, LastIndexOf(path, Solidus) + 2, Len(path))

HasExtension(path) == LastIndexOf(FinalComponent(path), Dot) # -1

ExtensionLowerCase(path) ==
  LET name == FinalComponent(path)
      ext == SubSeq(name, LastIndexOf(name, Dot) + 2, Len(name))
  IN  [i \in 1..Len(ext) |-> lowerCaseChar(ext[i])]

\* C22: the kind of a path depends only on the extension of its final
\* component: md in any letter case is a Note, desktop a Link, and every other
\* path, a path without extension included, a Document.
C22_ClassifiedByExtension ==
  kpc = "classified" =>
    kkind = IF HasExtension(kpath) /\ ExtensionLowerCase(kpath) = <<"m", "d">>
            THEN KindNote
            ELSE IF HasExtension(kpath) /\ ExtensionLowerCase(kpath) = <<"desktop">>
                 THEN KindLink
                 ELSE KindDocument

\* ------------------------------------------------------------------------
\* Order independence of the tree merge (C28), under SpecApplyOps
\* ------------------------------------------------------------------------

PathsOfOp(op) == IF op.kind = "move" THEN {op.pathFrom, op.pathTo} ELSE {op.path}

\* every path is referred to by at most one op of the batch
EachPathOnce(batch) ==
  \A i, j \in 1..Len(batch) : i # j => PathsOfOp(batch[i]) \cap PathsOfOp(batch[j]) = {}

BatchOrders(n) == {f \in [1..n -> 1..n] : \A i, j \in 1..n : f[i] = f[j] => i = j}

Permuted(batch, f) == [i \in 1..Len(batch) |-> batch[f[i]]]

\* C28: for a batch in which every path is referred to by at most one op, the
\* merged tree has the same set of entries (path with sha or content) for
\* every order of the ops.
C28_OrderIndependent ==
  (mpc = "merged" /\ EachPathOnce(ops)) =>
    \A f \in BatchOrders(Len(ops)) :
      Range(applyOps(Permuted(ops, f), oldTree)) = Range(newTree)

\* a batch of a move and a write on other paths was merged into a tree that
\* holds the moved file and another one
C28_Witness ==
  /\ mpc = "merged"
  /\ EachPathOnce(ops)
  /\ Len(ops) = 2
  /\ ops[1].kind = "move" /\ ops[2].kind = "write"
  /\ Len(oldTree) >= 2
  /\ \E i \in 1..Len(newTree) : newTree[i].path = ops[1].pathTo

\* ------------------------------------------------------------------------
\* Completion of the recursive listing (C29), under SpecListing
\* ------------------------------------------------------------------------

\* the directories whose listing succeeded
ListedDirs == {dir \in DOMAIN lsCalls : lsCalls[dir].state = "returned" /\ dir \notin lsFailed}

\* C29: when listFiles has resolved and downloadFiles uses its result, every
\* call of listFilesRecursive has returned, and the list holds, once each,
\* exactly the files of the directories whose listing succeeded (the files of
\* every directory reached, when no request failed).
C29_ListingComplete ==
  lspc = "resolved" =>
    /\ \A dir \in DOMAIN lsCalls : lsCalls[dir].state = "returned"
    /\ Range(lsResult) =
         {p \in DOMAIN lsRemote : SubSeq(p, 1, Len(p) - 1) \in ListedDirs}
    /\ \A i, j \in 1..Len(lsResult) : lsResult[i] = lsResult[j] => i = j
    /\ lsResult = listFilesRecursive(RootDir, lsRemote, lsFailed).files
    /\ lsResult = lsFiles

\* a repository with files two directories deep was listed without a failed
\* request
C29_Witness ==
  /\ lspc = "resolved"
  /\ lsFailed = {}
  /\ getAssociatedMetaPath(DocPath) \in Range(lsResult)
  /\ NotePath \in Range(lsResult)
  /\ Len(lsResult) >= 4

\* ------------------------------------------------------------------------
\* Claims on the application state
\* ------------------------------------------------------------------------

EditKinds == {"UpdateNoteContent", "UpdateEntryMeta", "UpdateLinkEntryMeta"}

\* the last dispatch was an edit action that returned another state
EditApplied ==
  appAction.kind \in EditKinds /\ appAction.outcome = "returned" /\ appState # appPrev

\* the ops a MultiRepoGitOps holds for a repository
OpsOfRepo(staged, repo) == IF repo \in DOMAIN staged THEN staged[repo] ELSE <<>>

\* what the files of every repository hold
ContentOfMaps(allMaps) == [repo \in DOMAIN allMaps |-> ContentView(allMaps[repo])]

\* C30: in every state of the application the staged ops are the diff of the
\* original file maps against the edit file maps, and no op is staged exactly
\* when both hold the same content.
C30_StagedOpsAreTheDiff ==
  LET d == diffMultiFileMaps(appState.allFileMapsOrig, appState.allFileMapsEdit)
  IN  /\ \A repo \in Range(AppRepos) :
           OpsOfRepo(appState.stagedGitOps, repo) = OpsOfRepo(d, repo)
      /\ (\A repo \in Range(AppRepos) : OpsOfRepo(appState.stagedGitOps, repo) = <<>>)
           <=> ContentOfMaps(appState.allFileMapsOrig) = ContentOfMaps(appState.allFileMapsEdit)

\* a rename was staged: the staged ops hold a move
C30_Witness ==
  /\ EditApplied
  /\ appAction.kind = "UpdateEntryMeta"
  /\ \E repo \in DOMAIN appState.stagedGitOps :
       \E i \in 1..Len(appState.stagedGitOps[repo]) :
         appState.stagedGitOps[repo][i].kind = "move"

\* the last dispatch ran stageLinkDBUpdate on the edit maps of the state
RegistryStaged ==
  \/ appAction.kind = "ReloadingDone"
  \/ /\ EditApplied
     /\ appAction.kind \in {"UpdateNoteContent", "UpdateLinkEntryMeta"}

\* a note of repo is among the back-references of the link
ReferencedFrom(linkEntry, repo) ==
  \E i \in 1..Len(linkEntry.referencedBy) :
    \E k \in 1..Len(appState.fileEntries) :
      /\ appState.fileEntries[k].key = linkEntry.referencedBy[i]
      /\ isNote(appState.fileEntries[k])
      /\ appState.fileEntries[k].repo = repo

RecordedIn(linkEntry, repo) == ReferencedFrom(linkEntry, repo) \/ linkEntry.standaloneRepo = repo

\* the registry content that lists exactly the links recorded in repo, the
\* standalone flag set where repo is the standalone owner
RegistryOf(repo) ==
  LET recorded(linkEntry) == RecordedIn(linkEntry, repo)
      kept == SelectSeq(appState.linkEntries, recorded)
  IN  serializeStoredLinks(
        [i \in 1..Len(kept) |->
           [title |-> kept[i].title, target |-> kept[i].target,
            ownLabels |-> kept[i].ownLabels, standalone |-> kept[i].standaloneRepo = repo]])

\* C23: after stageLinkDBUpdate the registry staged for a repository lists
\* exactly the links referenced from a note of that repository or owned by it
\* as standalone links, flagged standalone exactly for the owner, and every
\* link of the link set is recorded in the registry of some repository of the
\* edit maps.
C23_RegistryPerRepo ==
  RegistryStaged =>
    /\ \A repo \in DOMAIN appState.allFileMapsEdit :
         /\ NOTEMARKS_LINK_DB_PATH \in DOMAIN appState.allFileMapsEdit[repo]
         /\ appState.allFileMapsEdit[repo][NOTEMARKS_LINK_DB_PATH].content = RegistryOf(repo)
    /\ \A i \in 1..Len(appState.linkEntries) :
         \E repo \in DOMAIN appState.allFileMapsEdit : RecordedIn(appState.linkEntries[i], repo)

\* an edit made a note of r2 refer to the standalone link of r1: the link is
\* recorded in both registries
C23_Witness ==
  /\ RegistryStaged
  /\ appAction.kind = "UpdateNoteContent"
  /\ \E i \in 1..Len(appState.linkEntries) :
       /\ appState.linkEntries[i].standaloneRepo = "r1"
       /\ ReferencedFrom(appState.linkEntries[i], "r2")

\* the action reloadEntries dispatches after a load of the original maps o
LoadedValues == {reloadEntries(o) : o \in LoadedOriginals}

\* C24: ReloadingDone replaces entries, fileEntries, linkEntries, labels, both
\* file maps and the staged ops with the freshly loaded values and sets
\* isReloading to false; nothing staged or edited before the reload survives.
C24_ReloadReplaces ==
  appAction.kind = "ReloadingDone" =>
    \E a \in LoadedValues :
      appState = [entries |-> a.entries, fileEntries |-> a.fileEntries,
                  linkEntries |-> a.linkEntries, labels |-> a.labels,
                  isReloading |-> FALSE, activeEntryIdx |-> appPrev.activeEntryIdx,
                  page |-> appPrev.page, allFileMapsOrig |-> a.allFileMapsOrig,
                  allFileMapsEdit |-> a.allFileMapsEdit, stagedGitOps |-> a.stagedGitOps]

\* a reload on top of an edit session: the state before held edit maps and
\* staged ops no load produces
C24_Witness ==
  /\ appAction.kind = "ReloadingDone"
  /\ \A a \in LoadedValues :
       /\ appPrev.allFileMapsEdit # a.allFileMapsEdit
       /\ appPrev.stagedGitOps # a.stagedGitOps
  /\ \E repo \in DOMAIN appPrev.stagedGitOps : appPrev.stagedGitOps[repo] # <<>>

\* C25: SuccessfulCommit makes the original file maps an independent copy of
\* the edit file maps and empties the staged ops; entries, fileEntries,
\* linkEntries, labels, activeEntryIdx, page and the edit file maps stay as they
\* were. The two sides are never one object, and an edit action dispatched on
\* a state without staged ops leaves the original as the commit set it.
C25_CommitAdoptsEdit ==
  /\ appAction.kind = "SuccessfulCommit" =>
       appState = [appPrev EXCEPT !.allFileMapsOrig = appPrev.allFileMapsEdit,
                                  !.stagedGitOps = EmptyObject]
  /\ ~appObjects.origIsEdit
  /\ (appAction.kind \in EditKinds /\ appPrev.stagedGitOps = EmptyObject)
       => appState.allFileMapsOrig = appPrev.allFileMapsOrig

\* a commit of staged ops: the original differed from the edit maps before
C25_Witness ==
  /\ appAction.kind = "SuccessfulCommit"
  /\ \E repo \in DOMAIN appPrev.stagedGitOps : appPrev.stagedGitOps[repo] # <<>>
  /\ ContentOfMaps(appPrev.allFileMapsOrig) # ContentOfMaps(appPrev.allFileMapsEdit)
  /\ appPrev.entries # <<>>

\* C26: UpdateNoteContent, UpdateEntryMeta and UpdateLinkEntryMeta leave the
\* original file maps as they were and do not write to the edit file maps
\* object of the state they were handed: they write to a clone of it.
C26_EditsWriteToClone ==
  appAction.kind \in EditKinds =>
    /\ appState.allFileMapsOrig = appPrev.allFileMapsOrig
    /\ appObjects.prevEditIntact

\* a link edit that restaged the registry: the edit maps of the new state
\* differ from those of the state before
C26_Witness ==
  /\ EditApplied
  /\ appAction.kind = "UpdateLinkEntryMeta"
  /\ ContentOfMaps(appState.allFileMapsEdit) # ContentOfMaps(appPrev.allFileMapsEdit)

\* the active entry of s exists and is of the kind the edit action targets
Applicable(s, kind) ==
  LET activeEntry == entryAt(s.entries, s.activeEntryIdx)
  IN  /\ activeEntry # NoEntry
      /\ IF kind = "UpdateLinkEntryMeta" THEN isLink(activeEntry) ELSE isNote(activeEntry)

\* C27: an edit action dispatched where it cannot apply (no active entry, the
\* index unset or beyond the entries, or an active entry of another kind)
\* returns the state it was handed and does not fail.
C27_InapplicableEditIsNoOp ==
  (appAction.kind \in EditKinds /\ ~Applicable(appPrev, appAction.kind)) =>
    /\ appAction.outcome = "returned"
    /\ appState = appPrev

\* ------------------------------------------------------------------------
\* C39
\* ------------------------------------------------------------------------

\* the positions of the merged tree that carry the path p
PositionsOf(tree, p) == {i \in Indices(tree) : tree[i].path = p}

\* C39: for every old tree without duplicate paths and every op batch, the
\* merged tree produced by applyOps contains each path at most once
C39_NoDuplicatePaths ==
  mpc = "merged" =>
    \A p \in Paths : Cardinality(PositionsOf(newTree, p)) <= 1

\* ------------------------------------------------------------------------
\* C37, under SpecLoad
\* ------------------------------------------------------------------------

\* the ops staged by the load: the diff of the original against the edit-side
\* map
LoadStagedOps == diffFileMaps(ContentView(OrigMap), ContentView(EditMap)).ops

\* the sidecar of p was fetched and its content does not parse
SidecarFetchedUnparsable(p) ==
  /\ getAssociatedMetaPath(p) \in DOMAIN OrigMap
  /\ OrigMap[getAssociatedMetaPath(p)].error = NoError
  /\ OrigMap[getAssociatedMetaPath(p)].content = MetaUnparsable

\* C37: after the extraction, a write is staged for a sidecar that exists in
\* the remote store only if the sidecar was fetched and failed to parse; a
\* sidecar that could not be read, also because the listing of the reserved
\* metadata directory failed, has no write staged.
C37_UnreadSidecarNotOverwritten ==
  lpc = "done" =>
    \A p \in ContentPaths :
      (/\ getAssociatedMetaPath(p) \in DOMAIN remoteFiles
       /\ HasWrite(LoadStagedOps, getAssociatedMetaPath(p)))
        => SidecarFetchedUnparsable(p)

\* ------------------------------------------------------------------------
\* C38, under SpecPersist
\* ------------------------------------------------------------------------

\* the links of a list that the user added by hand
StandaloneIn(links) == {i \in Indices(links) : links[i].standaloneRepo # NoRepo}

\* C38: a link that is standalone in the current link set is, after the
\* registries were written and read back and the links recomputed on the
\* same file entries, still present and standalone with the same owner.
C38_StandaloneSurvivesReload ==
  regpc = "reloaded" =>
    \A i \in StandaloneIn(regLinks) :
      \E j \in Indices(regReloaded.linkEntries) :
        /\ regReloaded.linkEntries[j].target = regLinks[i].target
        /\ regReloaded.linkEntries[j].standaloneRepo = regLinks[i].standaloneRepo

\* ------------------------------------------------------------------------
\* The active entry (C33, C34), under SpecApp
\* ------------------------------------------------------------------------

\* C33: in every reachable application state activeEntryIdx is unset or a
\* position of the entries list.
C33_ActiveIdxInRange ==
  \/ appState.activeEntryIdx = NoIdx
  \/ appState.activeEntryIdx \in 0..(Len(appState.entries) - 1)

\* ------------------------------------------------------------------------
\* The relocation of the modified entry (C34), under SpecEdit
\* ------------------------------------------------------------------------

\* the entry the edit was applied to, and the active entry after it
EditedEntry == entryAt(appPrev.entries, appPrev.activeEntryIdx)
ActiveEntry == entryAt(appState.entries, appState.activeEntryIdx)

\* new is what the edit action kind makes of old
IsModified(kind, old, new) ==
  /\ new.kind = old.kind
  /\ CASE kind = "UpdateNoteContent" ->
            /\ new.repo = old.repo /\ new.location = old.location /\ new.title = old.title
            /\ new.text \in EditedTexts /\ new.text # old.text
            /\ new.links = processMarkdownLinks(new.text)
       [] kind = "UpdateEntryMeta" ->
            /\ new.repo = old.repo /\ new.location = old.location /\ new.text = old.text
            /\ new.title \in NewTitles /\ new.labels \in NewLabelLists
            /\ new.title # old.title \/ ~isSameLabels(new.labels, old.labels)
       [] kind = "UpdateLinkEntryMeta" ->
            /\ new.target = old.target
            /\ new.title \in NewLinkTitles /\ new.ownLabels \in NewOwnLabelLists
            /\ new.title # old.title \/ ~isSameLabels(new.ownLabels, old.ownLabels)

IsFileEntry(e) == e.kind \in {KindNote, KindDocument}

\* the path of the file entry e is in the edit file map of its repository
PathTracked(s, e) ==
  /\ e.repo \in DOMAIN s.allFileMapsEdit
  /\ getPathComponents(e) \in DOMAIN s.allFileMapsEdit[e.repo]

\* C35: in every reachable application state the keys of the entries are
\* pairwise distinct and the path of every file entry exists in the edit file
\* map of its repository.
C35_KeysDistinctPathsTracked ==
  /\ \A i, j \in Indices(appState.entries) :
       appState.entries[i].key = appState.entries[j].key => i = j
  /\ \A i \in Indices(appState.entries) :
       IsFileEntry(appState.entries[i]) => PathTracked(appState, appState.entries[i])

\* ------------------------------------------------------------------------
\* The update timestamp (C36), under SpecEdit
\* ------------------------------------------------------------------------

\* the content staged at the sidecar path of the file entry e
StagedSidecar(s, e) ==
  s.allFileMapsEdit[e.repo][getAssociatedMetaPath(getPathComponents(e))].content

\* C36: after an UpdateNoteContent that changed the text of the active note,
\* the modified entry and the sidecar staged for it carry the time of the
\* edit as timeUpdated.
C36_EditTimeRecorded ==
  (EditApplied /\ appAction.kind = "UpdateNoteContent" /\ EditedEntry # NoEntry) =>
    \E now \in EditTimes :
      /\ ActiveEntry.timeUpdated = now
      /\ StagedSidecar(appState, ActiveEntry)
           = serializeMetaData([labels |-> ActiveEntry.labels,
                                timeCreated |-> ActiveEntry.timeCreated,
                                timeUpdated |-> now])

\* ------------------------------------------------------------------------
\* Reloads in flight (C32), under SpecSession
\* ------------------------------------------------------------------------

ReloadsInFlight == Len(sessReloads)

\* C32: at most one run of reloadEntries is in flight, every ReloadingDone
\* installs the result of the run started last, and isReloading is true
\* exactly while a run is in flight.
C32_OneReloadInFlight ==
  /\ ReloadsInFlight <= 1
  /\ appAction.kind = "ReloadingDone" => sessInstalled = sessStarted
  /\ appState.isReloading <=> ReloadsInFlight > 0

\* ------------------------------------------------------------------------
\* A commit raced by an edit or a reload (C31), under SpecSession
\* ------------------------------------------------------------------------

opsFor(multiOps, repo) == IF repo \in DOMAIN multiOps THEN multiOps[repo] ELSE <<>>

\* the staged operations are those that lead from the remote to the edit maps
StagedAgainstRemote(s, remote) ==
  \A repo \in DOMAIN remote \cup DOMAIN s.stagedGitOps :
    opsFor(s.stagedGitOps, repo)
      = opsFor(diffMultiFileMaps(fetchedMaps(remote), s.allFileMapsEdit), repo)

\* C31: after the SuccessfulCommit of a commit during which an edit or a
\* ReloadingDone changed the file maps, the original file maps hold the
\* committed remote content and every change outside the committed batch is
\* still staged.
C31_RacedCommitKeepsChanges ==
  (appAction.kind = "SuccessfulCommit" /\ sessRaced) =>
    /\ ContentOfMaps(appState.allFileMapsOrig) = sessRemote
    /\ StagedAgainstRemote(appState, sessRemote)

====
